---- MODULE Spec2Model ----
(***************************************************************************)
(* eCollect Enterprise: the account-aggregation and risk-derivation        *)
(* pipeline.  Two implementations of the aggregation live in the           *)
(* repository: the client-side fetchAccounts (services/dataService.ts)     *)
(* and the server's GET /api/accounts handler (the Express backend).       *)
(* Texts are TLA+ strings; the JavaScript string and regular-expression    *)
(* operations the code uses are modelled character by character.           *)
(*                                                                         *)
(* Spec         the two aggregation passes over a store that answers       *)
(* SpecFetch    the same passes over a store that fails a request          *)
(* SpecExtract  extractStatus and extractDPD on their own                  *)
(* SpecRisk     calculateRisk and getPriorityScore on their own            *)
(* SpecValid    isValidValue on its own                                    *)
(* SpecStats    getSMSStats on its own                                     *)
(* SpecPages    fetchAccounts and fetchAllSMSLogs page by page             *)
(* SpecPagesFair  the same, every page request eventually answered         *)
(* SpecApp      App.loadAccounts: mount, Sync, Retry, Add Account          *)
(* SpecSelect   App's effect on the selected account                       *)
(* SpecChat     ChatInterface: conversations kept in localStorage          *)
(* SpecAddNote  addNote, client and POST /api/notehis                      *)
(***************************************************************************)
EXTENDS Integers, Sequences, FiniteSets, TLC

VARIABLES
    notesData,   \* rows of table notehis, in the order the store returns them
    smsData,     \* rows of table sms_logs, in the order the store returns them
    store,       \* how the backing store answers the requests for each table
    pass,        \* the last aggregation pass: who ran it, what it read, what it returned
    exNotes,     \* a note list handed to the Status & DPD extractor
    exOut,       \* what the extractor returned for exNotes
    risk,        \* the last call of calculateRisk: its arguments and its result
    call,        \* a call of isValidValue or getSMSStats: its argument and its result
    job,         \* a call of fetchAccounts or fetchAllSMSLogs, request by request
    app,         \* App: its state hooks and the loadAccounts calls in flight
    sel,         \* App: the selected account, its records and the fetches in flight
    chat,        \* ChatInterface: its state hooks, localStorage and the replies awaited
    db           \* table notehis as addNote sees it, and the addNote calls in flight

\* The variables of the synchronous pipeline, and those of the asynchronous steps
coreVars == <<notesData, smsData, store, pass, exNotes, exOut, risk, call>>

asyncVars == <<job, app, sel, chat, db>>

vars == <<notesData, smsData, store, pass, exNotes, exOut, risk, call, job, app, sel, chat, db>>

\* ------------------------------------------------------------------ bounds
MaxNotes == 3
MaxSms == 2
MaxExNotes == 3
MaxPlain == 42
MaxDpd == 95
\* const pageSize = 1000, scaled down so that a table of MaxNotes rows has
\* more than one page
pageSize == 2
MaxPad == 2
MaxStatSms == 40
MaxSends == 2
MaxAdds == 3
MaxLoads == 3
MaxSubmits == 2
MaxSelections == 2

\* null / undefined of JavaScript (a value that is no text of the model)
NULL == "<null>"

\* ------------------------------------------------- JavaScript string model
CharAt(s, i) == SubSeq(s, i, i)

Digits == "0123456789"
UpperLetters == "ABCDEFGHIJKLMNOPQRSTUVWXYZ"
LowerLetters == "abcdefghijklmnopqrstuvwxyz"

Letters == 1..26

\* The lower-case letter of each upper-case letter, and the reverse
LowerOf == [c \in {CharAt(UpperLetters, i) : i \in Letters} |->
               CharAt(LowerLetters, CHOOSE i \in Letters : CharAt(UpperLetters, i) = c)]

UpperOf == [c \in {CharAt(LowerLetters, i) : i \in Letters} |->
               CharAt(UpperLetters, CHOOSE i \in Letters : CharAt(LowerLetters, i) = c)]

\* The value of each decimal digit
DigitOf == [c \in {CharAt(Digits, d) : d \in 1..Len(Digits)} |->
               (CHOOSE d \in 1..Len(Digits) : CharAt(Digits, d) = c) - 1]

IsDigit(c) == c \in DOMAIN DigitOf

\* \s of a regular expression, and what String.prototype.trim strips
IsSpace(c) == c \in {" ", "\t", "\n"}

\* value || '' for a string-or-null field
OrEmpty(v) == IF v = NULL \/ v = "" THEN "" ELSE v

\* !value for a string-or-null field
Falsy(v) == v = NULL \/ v = ""

LowerChar(c) == IF c \in DOMAIN LowerOf THEN LowerOf[c] ELSE c

UpperChar(c) == IF c \in DOMAIN UpperOf THEN UpperOf[c] ELSE c

RECURSIVE toLowerCase(_)
toLowerCase(s) ==
    IF Len(s) = 0 THEN "" ELSE LowerChar(CharAt(s, 1)) \o toLowerCase(Tail(s))

RECURSIVE toUpperCase(_)
toUpperCase(s) ==
    IF Len(s) = 0 THEN "" ELSE UpperChar(CharAt(s, 1)) \o toUpperCase(Tail(s))

RECURSIVE trimStart(_)
trimStart(s) ==
    IF Len(s) > 0 /\ IsSpace(CharAt(s, 1)) THEN trimStart(Tail(s)) ELSE s

RECURSIVE trimEnd(_)
trimEnd(s) ==
    IF Len(s) > 0 /\ IsSpace(CharAt(s, Len(s)))
    THEN trimEnd(SubSeq(s, 1, Len(s) - 1))
    ELSE s

trim(s) == trimEnd(trimStart(s))

\* String.prototype.includes
includes(s, k) ==
    \E i \in 1..(Len(s) - Len(k) + 1) : SubSeq(s, i, i + Len(k) - 1) = k

DigitVal(c) == DigitOf[c]

\* parseInt(text, 10) of a non-empty run of decimal digits
RECURSIVE parseInt(_)
parseInt(s) ==
    IF Len(s) = 0 THEN 0
    ELSE 10 * parseInt(SubSeq(s, 1, Len(s) - 1)) + DigitVal(CharAt(s, Len(s)))

\* ------------------------------------------- regular-expression primitives
\* The literal lit stands at position i of s.
LitAt(s, i, lit) ==
    /\ i >= 1
    /\ i + Len(lit) - 1 <= Len(s)
    /\ SubSeq(s, i, i + Len(lit) - 1) = lit

\* Last index of the longest run of digits that starts at i (i - 1: no digit).
RECURSIVE DigitsEnd(_, _)
DigitsEnd(s, i) ==
    IF i <= Len(s) /\ IsDigit(CharAt(s, i)) THEN DigitsEnd(s, i + 1) ELSE i - 1

\* First index from i on that holds no white space: where \s* stops.
RECURSIVE SkipSpace(_, _)
SkipSpace(s, i) ==
    IF i <= Len(s) /\ IsSpace(CharAt(s, i)) THEN SkipSpace(s, i + 1) ELSE i

\* Where [:\s]* stops.
RECURSIVE SkipColonSpace(_, _)
SkipColonSpace(s, i) ==
    IF i <= Len(s) /\ (IsSpace(CharAt(s, i)) \/ CharAt(s, i) = ":")
    THEN SkipColonSpace(s, i + 1)
    ELSE i

\* A regular expression is modelled by the operator that says whether it
\* matches AT position i of the lower-cased text (flag i) and by the capture
\* it yields there; String.prototype.match takes the leftmost such position.
\* Every \d+ and \s* of the patterns below is followed by something that is
\* neither a digit nor white space, so the greedy longest run is the only
\* run with which the rest can match.
Min(S) == CHOOSE x \in S : \A y \in S : x <= y

\* text.match(pattern) is modelled per pattern by an operator match...(lc):
\* <<>> for null, else <<the text of capture group 1>> of the leftmost match.

\* Capture (\d+) that opens the pattern at i.
CapDigitsAt(lc, i) == SubSeq(lc, i, DigitsEnd(lc, i))

\* days?\s*past\s*due at k
DaysPastDueAt(lc, k) ==
    /\ LitAt(lc, k, "day")
    /\ LET a == IF LitAt(lc, k + 3, "s") THEN k + 4 ELSE k + 3
           b == SkipSpace(lc, a)
       IN  /\ LitAt(lc, b, "past")
           /\ LitAt(lc, SkipSpace(lc, b + 4), "due")

\* /(\d+)\s*(?:days?\s*past\s*due|dpd)/i
DaysPastDueOrDpdAt(lc, i) ==
    LET j == DigitsEnd(lc, i)
        k == SkipSpace(lc, j + 1)
    IN  j >= i /\ (DaysPastDueAt(lc, k) \/ LitAt(lc, k, "dpd"))

\* /dpd[:\s]*(\d+)/i
DpdColonAt(lc, i) ==
    /\ LitAt(lc, i, "dpd")
    /\ LET k == SkipColonSpace(lc, i + 3) IN DigitsEnd(lc, k) >= k

CapAfterDpd(lc, i) == CapDigitsAt(lc, SkipColonSpace(lc, i + 3))

\* /(\d+)\s*dpd/i
NumDpdAt(lc, i) ==
    LET j == DigitsEnd(lc, i)
    IN  j >= i /\ LitAt(lc, SkipSpace(lc, j + 1), "dpd")

\* /delinquent[:\s]*(\d+)/i
DelinquentAt(lc, i) ==
    /\ LitAt(lc, i, "delinquent")
    /\ LET k == SkipColonSpace(lc, i + 10) IN DigitsEnd(lc, k) >= k

CapAfterDelinquent(lc, i) == CapDigitsAt(lc, SkipColonSpace(lc, i + 10))

\* /(\d+)\s*day\(s\)\s*overdue/i
DaysOverdueAt(lc, i) ==
    LET j == DigitsEnd(lc, i)
        k == SkipSpace(lc, j + 1)
    IN  /\ j >= i
        /\ LitAt(lc, k, "day(s)")
        /\ LitAt(lc, SkipSpace(lc, k + 6), "overdue")

\* /late\s*by\s*(\d+)\s*days?/i
LateByAt(lc, i) ==
    /\ LitAt(lc, i, "late")
    /\ LET a == SkipSpace(lc, i + 4)
       IN  /\ LitAt(lc, a, "by")
           /\ LET k == SkipSpace(lc, a + 2)
                  j == DigitsEnd(lc, k)
              IN  j >= k /\ LitAt(lc, SkipSpace(lc, j + 1), "day")

CapLateBy(lc, i) == CapDigitsAt(lc, SkipSpace(lc, SkipSpace(lc, i + 4) + 2))

\* /late by (\d+)\s*days?/i
SmsLateByAt(lc, i) ==
    /\ LitAt(lc, i, "late by ")
    /\ LET j == DigitsEnd(lc, i + 8)
       IN  j >= i + 8 /\ LitAt(lc, SkipSpace(lc, j + 1), "day")

CapSmsLateBy(lc, i) == CapDigitsAt(lc, i + 8)

matchDaysPastDueOrDpd(lc) ==
    LET hits == {i \in 1..Len(lc) : DaysPastDueOrDpdAt(lc, i)}
    IN  IF hits = {} THEN <<>> ELSE <<CapDigitsAt(lc, Min(hits))>>

matchDpdColon(lc) ==
    LET hits == {i \in 1..Len(lc) : DpdColonAt(lc, i)}
    IN  IF hits = {} THEN <<>> ELSE <<CapAfterDpd(lc, Min(hits))>>

matchNumDpd(lc) ==
    LET hits == {i \in 1..Len(lc) : NumDpdAt(lc, i)}
    IN  IF hits = {} THEN <<>> ELSE <<CapDigitsAt(lc, Min(hits))>>

matchDelinquent(lc) ==
    LET hits == {i \in 1..Len(lc) : DelinquentAt(lc, i)}
    IN  IF hits = {} THEN <<>> ELSE <<CapAfterDelinquent(lc, Min(hits))>>

matchDaysOverdue(lc) ==
    LET hits == {i \in 1..Len(lc) : DaysOverdueAt(lc, i)}
    IN  IF hits = {} THEN <<>> ELSE <<CapDigitsAt(lc, Min(hits))>>

matchLateBy(lc) ==
    LET hits == {i \in 1..Len(lc) : LateByAt(lc, i)}
    IN  IF hits = {} THEN <<>> ELSE <<CapLateBy(lc, Min(hits))>>

matchSmsLateBy(lc) ==
    LET hits == {i \in 1..Len(lc) : SmsLateByAt(lc, i)}
    IN  IF hits = {} THEN <<>> ELSE <<CapSmsLateBy(lc, Min(hits))>>

\* ------------------------------------------------------ Risk Classifier
calculateRisk_GE90(dpd, status) ==
    LET normalizedStatus == IF status = NULL THEN "" ELSE toLowerCase(status)
    IN  IF \/ dpd >= 90
           \/ includes(normalizedStatus, "bankruptcy")
           \/ includes(normalizedStatus, "legal")
        THEN "CRITICAL"
        ELSE IF dpd > 30 THEN "HIGH" ELSE "LOW"

\* A plausible slip: the HIGH band closed at 60, so that 61..90 falls to LOW.
calculateRisk_HighBand(dpd, status) ==
    LET normalizedStatus == IF status = NULL THEN "" ELSE toLowerCase(status)
    IN  IF \/ dpd > 90
           \/ includes(normalizedStatus, "bankruptcy")
           \/ includes(normalizedStatus, "legal")
        THEN "CRITICAL"
        ELSE IF dpd > 30 /\ dpd <= 60 THEN "HIGH" ELSE "LOW"

\* The level of calculateRisk's result (color, bgColor and borderColor are
\* constants of the level).  status?.toLowerCase() || '' is '' for an
\* absent status.
calculateRisk(dpd, status) ==
    LET normalizedStatus == IF status = NULL THEN "" ELSE toLowerCase(status)
    IN  IF \/ dpd > 90
           \/ includes(normalizedStatus, "bankruptcy")
           \/ includes(normalizedStatus, "legal")
        THEN "CRITICAL"
        ELSE IF dpd > 30 THEN "HIGH" ELSE "LOW"

\* A plausible slip: the balance term without Math.min.
getPriorityScore_NoCap(dpd, balance, status) ==
    LET level == calculateRisk(dpd, status)
        weight == IF level = "CRITICAL" THEN 1000
                  ELSE IF level = "HIGH" THEN 500 ELSE 100
    IN  100 * weight + 100 * (dpd * 2) + balance

\* A plausible slip: dpd weighted by 10 instead of 2.
getPriorityScore_DpdTimes10(dpd, balance, status) ==
    LET level == calculateRisk(dpd, status)
        weight == IF level = "CRITICAL" THEN 1000
                  ELSE IF level = "HIGH" THEN 500 ELSE 100
    IN  100 * weight + 100 * (dpd * 10)
            + (IF balance < 200 * 100 THEN balance ELSE 200 * 100)

\* getPriorityScore, in hundredths: balance / 100 need not be whole, so the
\* model counts the score times 100, and Math.min(balance / 100, 200) times
\* 100 is the smaller of balance and 20000.
getPriorityScore(dpd, balance, status) ==
    LET level == calculateRisk(dpd, status)
        weight == IF level = "CRITICAL" THEN 1000
                  ELSE IF level = "HIGH" THEN 500 ELSE 100
    IN  100 * weight + 100 * (dpd * 2)
            + (IF balance < 200 * 100 THEN balance ELSE 200 * 100)

\* ---------------------------------------------------------------- inputs
Note(cust, acc, text, reason, details, date) ==
    [ custnumber |-> cust, accnumber |-> acc, notemade |-> text,
      reason |-> reason, reasondetails |-> details, notedate |-> date ]

Sms(cust, message, sendStatus, date) ==
    [ customer_number |-> cust, message |-> message,
      send_status |-> sendStatus, date_sent |-> date ]

\* Rows the notehis table may hold
NoteRows ==
    { Note("C1", "A1", "Customer filed for bankruptcy", NULL, NULL, "2024-01-01"),
      Note(" C1 ", "A2", "customer is 45 DPD", NULL, NULL, "2024-01-02"),
      Note("null", "A3", "delinquent: 40", NULL, NULL, "2024-01-03"),
      Note("C2", "NULL", "Letter sent", "LEGAL", "95 days past due", "2024-01-05"),
      Note("C3", "N/A", "called, no answer", "", NULL, NULL) }

\* Rows the sms_logs table may hold
SmsRows ==
    { Sms("C3", "Your loan is late by 45 days", "Success", "2024-02-01"),
      Sms("C4", "Reminder: please pay today", "FAILED", "2024-02-02"),
      Sms("none", "Late by 10 days. Pay Kes. 1,200.00", "success", "2024-02-03"),
      Sms("C1 ", "late by 7 day", NULL, NULL) }

\* A note of customer C1 with the given three text fields
TextNote(text, reason, details) == Note("C1", "A1", text, reason, details, "2024-01-01")

\* A note no keyword and no DPD pattern matches
PlainNote == TextNote("called, no answer", NULL, NULL)

\* Notes handed to the extractor
ExRows ==
    { TextNote("Customer filed for BANKRUPTCY", NULL, NULL),
      TextNote("customer is 45 DPD", NULL, NULL),
      TextNote("delinquent: 40", NULL, NULL),
      TextNote("Unpaid balance, skip trace", NULL, NULL),
      TextNote("promise", "to pay 30", "Days  Past Due"),
      TextNote("DPD: 60", "legal review", ""),
      TextNote("late by 33 days", NULL, "12 day(s) overdue"),
      TextNote("arrangement broken", "dpd 7 or 15dpd", NULL),
      TextNote(NULL, NULL, NULL),
      PlainNote }

KnownNotes == NoteRows \cup ExRows

\* ------------------------------------------------ Status & DPD Extractor
\* `${note.notemade || ''} ${note.reason || ''} ${note.reasondetails || ''}`
noteContent(note) ==
    OrEmpty(note.notemade) \o " " \o OrEmpty(note.reason) \o " "
        \o OrEmpty(note.reasondetails)

statusKeywords ==
    << [keyword |-> "bankruptcy",     status |-> "Bankruptcy"],
       [keyword |-> "legal",          status |-> "Legal"],
       [keyword |-> "promise to pay", status |-> "Promise to Pay"],
       [keyword |-> "ptp",            status |-> "Promise to Pay"],
       [keyword |-> "paid",           status |-> "Paid"],
       [keyword |-> "dispute",        status |-> "Dispute"],
       [keyword |-> "broken",         status |-> "Broken Promise"],
       [keyword |-> "skip",           status |-> "Skip"],
       [keyword |-> "deceased",       status |-> "Deceased"],
       [keyword |-> "settlement",     status |-> "Settlement"],
       [keyword |-> "arrangement",    status |-> "Arrangement"] >>

\* The server's copy of the table.
apiStatusKeywords ==
    << [keyword |-> "bankruptcy",     status |-> "Bankruptcy"],
       [keyword |-> "legal",          status |-> "Legal"],
       [keyword |-> "promise to pay", status |-> "Promise to Pay"],
       [keyword |-> "ptp",            status |-> "Promise to Pay"],
       [keyword |-> "paid",           status |-> "Paid"],
       [keyword |-> "dispute",        status |-> "Dispute"],
       [keyword |-> "broken",         status |-> "Broken Promise"],
       [keyword |-> "skip",           status |-> "Skip"],
       [keyword |-> "deceased",       status |-> "Deceased"],
       [keyword |-> "settlement",     status |-> "Settlement"],
       [keyword |-> "arrangement",    status |-> "Arrangement"] >>

\* for (const { keyword, status } of table) if (content.includes(keyword)) return status
\* from keyword k on; <<>> when the inner loop ends without a return.
RECURSIVE KeywordLoop(_, _, _)
KeywordLoop(content, table, k) ==
    IF k > Len(table) THEN <<>>
    ELSE IF includes(content, table[k].keyword) THEN <<table[k].status>>
    ELSE KeywordLoop(content, table, k + 1)

\* The inner loop over one note's lower-cased content, tabulated once for the
\* notes of the model (each entry is the value of the expression).
noteStatus == [note \in KnownNotes |->
                  KeywordLoop(toLowerCase(noteContent(note)), statusKeywords, 1)]

apiNoteStatus == [note \in KnownNotes |->
                     KeywordLoop(toLowerCase(noteContent(note)), apiStatusKeywords, 1)]

\* for (const note of notes) { ... } return 'Active', from note n on.
RECURSIVE StatusLoop(_, _)
StatusLoop(notes, n) ==
    IF n > Len(notes) THEN "Active"
    ELSE LET hit == noteStatus[notes[n]]
         IN  IF hit # <<>> THEN hit[1] ELSE StatusLoop(notes, n + 1)

RECURSIVE ApiStatusLoop(_, _)
ApiStatusLoop(notes, n) ==
    IF n > Len(notes) THEN "Active"
    ELSE LET hit == apiNoteStatus[notes[n]]
         IN  IF hit # <<>> THEN hit[1] ELSE ApiStatusLoop(notes, n + 1)

\* A plausible slip: the two loops nested the other way round (for each
\* keyword, for each note).
lowerContent == [note \in KnownNotes |-> toLowerCase(noteContent(note))]

RECURSIVE KeywordFirstLoop(_, _)
KeywordFirstLoop(notes, k) ==
    IF k > Len(statusKeywords) THEN "Active"
    ELSE IF \E n \in 1..Len(notes) :
                includes(lowerContent[notes[n]], statusKeywords[k].keyword)
         THEN statusKeywords[k].status
         ELSE KeywordFirstLoop(notes, k + 1)

extractStatus_KeywordFirst(notes) == KeywordFirstLoop(notes, 1)

\* Another: the list scanned from its last note (taken to be oldest first).
RECURSIVE ReverseStatusLoop(_, _)
ReverseStatusLoop(notes, n) ==
    IF n < 1 THEN "Active"
    ELSE LET hit == noteStatus[notes[n]]
         IN  IF hit # <<>> THEN hit[1] ELSE ReverseStatusLoop(notes, n - 1)

extractStatus_LastNoteFirst(notes) == ReverseStatusLoop(notes, Len(notes))

extractStatus(notes) == StatusLoop(notes, 1)

apiExtractStatus(notes) == ApiStatusLoop(notes, 1)

\* content.match(pattern) for each pattern of the client's dpdPatterns, in order
dpdPatterns(content) ==
    LET lc == toLowerCase(content)
    IN  << matchDaysPastDueOrDpd(lc),
           matchDpdColon(lc),
           matchNumDpd(lc),
           matchDelinquent(lc) >>

\* ... and of the server's
apiDpdPatterns(content) ==
    LET lc == toLowerCase(content)
    IN  << matchDaysPastDueOrDpd(lc),
           matchDpdColon(lc),
           matchNumDpd(lc),
           matchDaysOverdue(lc),
           matchLateBy(lc) >>

\* for (const pattern of dpdPatterns) { if (match) return parseInt(match[1], 10) }
\* over the match results of one note: <<>> when no pattern matches.
FirstPattern(matches) ==
    LET hits == {p \in 1..Len(matches) : matches[p] # <<>>}
    IN  IF hits = {} THEN <<>> ELSE <<parseInt(matches[Min(hits)][1])>>

noteCountHeuristic_NoClamp(noteCount) ==
    IF noteCount > 10 THEN 60 + noteCount * 3
    ELSE IF noteCount > 5 THEN 30 + noteCount * 3
    ELSE 10 + noteCount * 2

\* The note count as a proxy for the activity level (the same three lines
\* in both implementations).
noteCountHeuristic(noteCount) ==
    IF noteCount > 10
    THEN 60 + (IF noteCount * 3 < 120 THEN noteCount * 3 ELSE 120)
    ELSE IF noteCount > 5 THEN 30 + noteCount * 3
    ELSE 10 + noteCount * 2

\* The inner loop over one note's content, tabulated once for the notes of
\* the model.
noteDpd == [note \in KnownNotes |-> FirstPattern(dpdPatterns(noteContent(note)))]

apiNoteDpd == [note \in KnownNotes |-> FirstPattern(apiDpdPatterns(noteContent(note)))]

RECURSIVE DpdLoop(_, _)
DpdLoop(notes, n) ==
    IF n > Len(notes) THEN noteCountHeuristic(Len(notes))
    ELSE LET hit == noteDpd[notes[n]]
         IN  IF hit # <<>> THEN hit[1] ELSE DpdLoop(notes, n + 1)

extractDPD(notes) == DpdLoop(notes, 1)

RECURSIVE ApiDpdLoop(_, _)
ApiDpdLoop(notes, n) ==
    IF n > Len(notes) THEN noteCountHeuristic(Len(notes))
    ELSE LET hit == apiNoteDpd[notes[n]]
         IN  IF hit # <<>> THEN hit[1] ELSE ApiDpdLoop(notes, n + 1)

apiExtractDPD(notes) == ApiDpdLoop(notes, 1)

\* ---------------------------------------------------------- Validity Filter
\* isValidValue of a string-or-null value (String(value) of a string is the
\* string).
\* A plausible slip: the string is upper-cased but not trimmed.
isValidValue_NoTrim(value) ==
    IF Falsy(value) THEN FALSE
    ELSE LET str == toUpperCase(value)
         IN  str \notin {"", "NULL", "N/A", "NONE", "UNDEFINED"}

isValidValue(value) ==
    IF Falsy(value) THEN FALSE
    ELSE LET str == toUpperCase(trim(value))
         IN  str \notin {"", "NULL", "N/A", "NONE", "UNDEFINED"}

\* ------------------------------------------------------------ SMS statistics
\* s.send_status?.toLowerCase() === 'success'
sendStatusIsSuccess(sms) ==
    sms.send_status # NULL /\ toLowerCase(sms.send_status) = "success"

\* ... tabulated once for the rows of the model
isSuccessOf == [sms \in SmsRows |-> sendStatusIsSuccess(sms)]

isSuccess(sms) == isSuccessOf[sms]

\* sms.message?.match(/late by (\d+)\s*days?/i)
messageLateBy(sms) ==
    IF sms.message = NULL THEN <<>>
    ELSE matchSmsLateBy(toLowerCase(sms.message))

\* ... tabulated once for the rows of the model
smsLateByOf == [sms \in SmsRows |-> messageLateBy(sms)]

smsLateBy(sms) == smsLateByOf[sms]

\* parseInt(match[1], 10) of the rows that match, tabulated likewise
smsLateByDays ==
    [sms \in SmsRows |->
        IF smsLateByOf[sms] = <<>> THEN <<>> ELSE <<parseInt(smsLateByOf[sms][1])>>]

\* dpdValues: parseInt(match[1], 10) of every message that matches, in order
RECURSIVE dpdValues(_)
dpdValues(smsLogs) ==
    IF smsLogs = <<>> THEN <<>>
    ELSE smsLateByDays[Head(smsLogs)] \o dpdValues(Tail(smsLogs))

\* The e with 2^e <= num / den < 2^(e + 1), for num, den > 0
RECURSIVE binaryExponent(_, _)
binaryExponent(num, den) ==
    IF num >= 2 * den THEN 1 + binaryExponent(num, 2 * den)
    ELSE IF num < den THEN binaryExponent(2 * num, den) - 1
    ELSE 0

\* (r * 2^n) mod den
RECURSIVE shiftedRemainder(_, _, _)
shiftedRemainder(r, den, n) ==
    IF n = 0 THEN r % den ELSE shiftedRemainder((2 * r) % den, den, n - 1)

RECURSIVE Pow2(_)
Pow2(n) == IF n = 0 THEN 1 ELSE 2 * Pow2(n - 1)

\* Math.round((successful / total) * 100) in IEEE 754 double arithmetic, for
\* 0 <= successful <= total and total > 0.  The quotient q is rounded to 53
\* significant bits, the product q * 100 is rounded again, and Math.round
\* takes the nearest integer, a half going up.  The two roundings move the
\* product by less than 2^-44, and 100 * successful / total is either a half
\* h = k + 1/2 or at least 1 / (2 * total) away from one, so the result is
\* the exact rounding unless the exact product is a half h and the computed
\* product falls below h.  That happens when the quotient was rounded down,
\* by the fraction R / total of its last bit (R the remainder of the 53-bit
\* division), and 100 times that error exceeds half the spacing of the
\* doubles just below h: 200 * R > total * 2^D with D the difference of the
\* binary exponents of h and q (one less for h = 1/2, a power of two).
roundedPercent(successful, total) ==
    LET exact == (200 * successful + total) \div (2 * total)
        half == (200 * successful) % (2 * total) = total
        expQ == binaryExponent(successful, total)
        expH == binaryExponent(2 * exact - 1, 2)
        R == shiftedRemainder(successful, total, 52 - expQ)
        D == IF 2 * exact - 1 = 1 THEN expH - expQ - 1 ELSE expH - expQ
    IN  IF half /\ 2 * R < total /\ 200 * R > total * Pow2(D)
        THEN exact - 1
        ELSE exact

\* getSMSStats; latestDPD and lastSentDate are <<>> for null, <<v>> for a
\* value.  (latestArrears, which no
\* aggregation reads, is left out.)
getSMSStats(smsLogs) ==
    LET total == Len(smsLogs)
        successful == Cardinality({i \in 1..Len(smsLogs) : isSuccess(smsLogs[i])})
        dpds == dpdValues(smsLogs)
    IN  [ total |-> total,
          successful |-> successful,
          failed |-> total - successful,
          successRate |-> IF total > 0 THEN roundedPercent(successful, total) ELSE 0,
          latestDPD |-> IF Len(dpds) > 0 THEN <<dpds[1]>> ELSE <<>>,
          lastSentDate |-> IF Len(smsLogs) > 0 THEN <<smsLogs[1].date_sent>> ELSE <<>> ]

\* ------------------------------------------- Account Aggregator (client side)
\* A JavaScript Map is a sequence of entries with distinct keys, in insertion
\* order; a Set of strings is a sequence without repetition, in insertion
\* order.
mapHas(map, key) == \E i \in 1..Len(map) : map[i].key = key

mapIndex(map, key) == Min({i \in 1..Len(map) : map[i].key = key})

setAdd(set, v) ==
    IF \E i \in 1..Len(set) : set[i] = v THEN set ELSE Append(set, v)

\* String(note.custnumber || '').trim() and String(sms.customer_number ||
\* '').trim(), tabulated once for the rows of the model
noteCustKey == [note \in KnownNotes |-> trim(OrEmpty(note.custnumber))]

smsCustKey == [sms \in SmsRows |-> trim(OrEmpty(sms.customer_number))]

\* isValidValue(custKey), tabulated likewise
noteCustKeyValid == [note \in KnownNotes |-> isValidValue(noteCustKey[note])]

smsCustKeyValid == [sms \in SmsRows |-> isValidValue(smsCustKey[sms])]

\* What a note adds to accnumbers: String(note.accnumber).trim() if
\* isValidValue(note.accnumber), nothing otherwise; tabulated likewise
noteAccnumber ==
    [note \in KnownNotes |->
        IF isValidValue(note.accnumber) THEN <<trim(note.accnumber)>> ELSE <<>>]

newCustomer(custKey) ==
    [key |-> custKey, notes |-> <<>>, sms |-> <<>>, accnumbers |-> <<>>]

\* A plausible slip: the entry is created without asking whether the key is
\* already in the map.
groupNote_NoHasCheck(customerMap, note) ==
    LET custKey == trim(OrEmpty(note.custnumber))
    IN  IF ~isValidValue(custKey) THEN customerMap
        ELSE Append(customerMap,
                    [key |-> custKey, notes |-> <<note>>, sms |-> <<>>,
                     accnumbers |-> IF isValidValue(note.accnumber)
                                    THEN <<trim(note.accnumber)>> ELSE <<>>])

\* The body of notesData.forEach(note => ...)
groupNote(customerMap, note) ==
    LET custKey == noteCustKey[note]
    IN  IF ~noteCustKeyValid[note] THEN customerMap
        ELSE LET m == IF mapHas(customerMap, custKey) THEN customerMap
                      ELSE Append(customerMap, newCustomer(custKey))
                 i == mapIndex(m, custKey)
             IN  [m EXCEPT ![i].notes = Append(@, note),
                           ![i].accnumbers =
                               IF noteAccnumber[note] # <<>>
                               THEN setAdd(@, noteAccnumber[note][1])
                               ELSE @]

\* A plausible slip: the push sits inside the if, so an SMS is kept only
\* when it creates the entry of its customer.
groupSms_NewOnly(customerMap, sms) ==
    LET custKey == smsCustKey[sms]
    IN  IF ~smsCustKeyValid[sms] \/ mapHas(customerMap, custKey) THEN customerMap
        ELSE Append(customerMap,
                    [key |-> custKey, notes |-> <<>>, sms |-> <<sms>>,
                     accnumbers |-> <<>>])

\* The body of smsData.forEach(sms => ...)
groupSms(customerMap, sms) ==
    LET custKey == smsCustKey[sms]
    IN  IF ~smsCustKeyValid[sms] THEN customerMap
        ELSE LET m == IF mapHas(customerMap, custKey) THEN customerMap
                      ELSE Append(customerMap, newCustomer(custKey))
                 i == mapIndex(m, custKey)
             IN  [m EXCEPT ![i].sms = Append(@, sms)]

\* notesData.forEach(note => ...)
RECURSIVE forEachNote(_, _)
forEachNote(customerMap, rows) ==
    IF rows = <<>> THEN customerMap
    ELSE forEachNote(groupNote(customerMap, Head(rows)), Tail(rows))

\* smsData.forEach(sms => ...)
RECURSIVE forEachSms(_, _)
forEachSms(customerMap, rows) ==
    IF rows = <<>> THEN customerMap
    ELSE forEachSms(groupSms(customerMap, Head(rows)), Tail(rows))

accountSource_NoBoth(notes, sms) ==
    IF Len(notes) > 0 THEN "notes" ELSE "sms"

\* let source: 'notes' | 'sms' | 'both'
accountSource(notes, sms) ==
    IF Len(notes) > 0 /\ Len(sms) > 0 THEN "both"
    ELSE IF Len(notes) > 0 THEN "notes"
    ELSE "sms"

\* A plausible slip: "no DPD found" reported by the sentinel -1.
smsDpd_Sentinel(smsStats) ==
    IF smsStats.latestDPD = <<>> THEN -1 ELSE smsStats.latestDPD[1]

\* smsStats.latestDPD || 0
smsDpd(smsStats) ==
    IF smsStats.latestDPD = <<>> THEN 0 ELSE smsStats.latestDPD[1]

\* The body of customerMap.forEach((data, custnumber) => ...): the Account
\* pushed for one entry.
clientAccount(data) ==
    LET notes == data.notes
        sms == data.sms
        custnumber == data.key
        fromNotes == Len(notes) > 0
        fromSms == ~fromNotes /\ Len(sms) > 0
        dpd == IF fromNotes THEN extractDPD(notes)
               ELSE IF fromSms THEN smsDpd(getSMSStats(sms))
               ELSE 0
    IN  [ id |-> custnumber,
          custnumber |-> custnumber,
          accnumber |-> IF Len(data.accnumbers) > 0 THEN data.accnumbers[1]
                        ELSE "SMS-" \o custnumber,
          customerName |-> "Customer " \o custnumber,
          dpd |-> dpd,
          status |-> IF fromNotes THEN extractStatus(notes)
                     ELSE IF fromSms
                          THEN (IF dpd > 30 THEN "SMS Only - Overdue" ELSE "SMS Only")
                          ELSE "Active",
          lastContact |-> IF fromNotes THEN
                              (IF Falsy(notes[1].notedate) THEN "N/A" ELSE notes[1].notedate)
                          ELSE IF fromSms THEN
                              (IF Falsy(sms[1].date_sent) THEN "N/A" ELSE sms[1].date_sent)
                          ELSE "N/A",
          noteCount |-> Len(notes),
          smsCount |-> Len(sms),
          source |-> accountSource(notes, sms) ]

\* A plausible slip: a sort that is not stable, placing an account before the
\* accounts of equal dpd already placed.
RECURSIVE insertByDpd_BeforeEqual(_, _)
insertByDpd_BeforeEqual(sorted, a) ==
    IF sorted = <<>> THEN <<a>>
    ELSE IF Head(sorted).dpd > a.dpd
         THEN <<Head(sorted)>> \o insertByDpd_BeforeEqual(Tail(sorted), a)
         ELSE <<a>> \o sorted

\* accounts.sort((a, b) => b.dpd - a.dpd): Array.prototype.sort is stable, so
\* an account goes behind every account already placed whose dpd is not lower.
RECURSIVE insertByDpd(_, _)
insertByDpd(sorted, a) ==
    IF sorted = <<>> THEN <<a>>
    ELSE IF Head(sorted).dpd >= a.dpd
         THEN <<Head(sorted)>> \o insertByDpd(Tail(sorted), a)
         ELSE <<a>> \o sorted

RECURSIVE sortByDpd(_)
sortByDpd(accounts) ==
    IF accounts = <<>> THEN <<>>
    ELSE insertByDpd(sortByDpd(SubSeq(accounts, 1, Len(accounts) - 1)),
                     accounts[Len(accounts)])

\* A plausible slip: the map starts with a catch-all entry for the records
\* without a usable key.
clientCustomerMap_CatchAll(notes, sms) ==
    forEachSms(forEachNote(<<newCustomer("UNKNOWN")>>, notes), sms)

\* The customer map of fetchAccounts after both forEach loops
clientCustomerMap(notes, sms) ==
    forEachSms(forEachNote(<<>>, notes), sms)

\* A plausible slip: the accounts array lives outside the function and is not
\* emptied, so a run starts from the accounts of the run before.
aggregateClient_SharedArray(notes, sms) ==
    LET customerMap == clientCustomerMap(notes, sms)
        kept == IF pass.impl = "client" THEN pass.accounts ELSE <<>>
    IN  sortByDpd(kept \o [i \in 1..Len(customerMap) |-> clientAccount(customerMap[i])])

\* What fetchAccounts returns for the fetched notesData and smsData
aggregateClient(notes, sms) ==
    LET customerMap == clientCustomerMap(notes, sms)
    IN  sortByDpd([i \in 1..Len(customerMap) |-> clientAccount(customerMap[i])])

\* ------------------------------------- Account Aggregator (GET /api/accounts)
\* SELECT * FROM notehis WHERE accnumber IS NOT NULL AND accnumber != 'NULL'
apiNoteSelected(note) == note.accnumber # NULL /\ note.accnumber # "NULL"

\* SELECT * FROM sms_logs WHERE customer_number IS NOT NULL
apiSmsSelected(sms) == sms.customer_number # NULL

\* The body of notes.forEach(note => ...)
apiGroupNote(customerMap, note) ==
    LET custKey == IF Falsy(note.custnumber) THEN note.accnumber ELSE note.custnumber
    IN  IF Falsy(custKey) \/ custKey = "NULL" THEN customerMap
        ELSE LET m == IF mapHas(customerMap, custKey) THEN customerMap
                      ELSE Append(customerMap,
                                  [ key |-> custKey,
                                    id |-> custKey,
                                    custnumber |-> OrEmpty(note.custnumber),
                                    accnumber |-> OrEmpty(note.accnumber),
                                    customerName |-> "Customer " \o custKey,
                                    notes |-> <<>>,
                                    smsLogs |-> <<>>,
                                    source |-> "notes" ])
                 i == mapIndex(m, custKey)
             IN  [m EXCEPT ![i].notes = Append(@, note)]

\* The body of smsRecords.forEach(sms => ...)
apiGroupSms(customerMap, sms) ==
    LET custKey == sms.customer_number
    IN  IF Falsy(custKey) \/ custKey = "NULL" THEN customerMap
        ELSE LET m == IF ~mapHas(customerMap, custKey)
                      THEN Append(customerMap,
                                  [ key |-> custKey,
                                    id |-> custKey,
                                    custnumber |-> custKey,
                                    accnumber |-> "",
                                    customerName |-> "Customer " \o custKey,
                                    notes |-> <<>>,
                                    smsLogs |-> <<>>,
                                    source |-> "sms" ])
                      ELSE LET j == mapIndex(customerMap, custKey)
                           IN  IF customerMap[j].source = "notes"
                               THEN [customerMap EXCEPT ![j].source = "both"]
                               ELSE customerMap
                 i == mapIndex(m, custKey)
             IN  [m EXCEPT ![i].smsLogs = Append(@, sms)]

RECURSIVE apiForEachNote(_, _)
apiForEachNote(customerMap, rows) ==
    IF rows = <<>> THEN customerMap
    ELSE apiForEachNote(apiGroupNote(customerMap, Head(rows)), Tail(rows))

RECURSIVE apiForEachSms(_, _)
apiForEachSms(customerMap, rows) ==
    IF rows = <<>> THEN customerMap
    ELSE apiForEachSms(apiGroupSms(customerMap, Head(rows)), Tail(rows))

\* The body of customerMap.forEach((value, key) => ...)
apiAccount(value) ==
    [ id |-> value.key,
      custnumber |-> value.custnumber,
      accnumber |-> IF Falsy(value.accnumber) THEN value.custnumber ELSE value.accnumber,
      customerName |-> value.customerName,
      dpd |-> apiExtractDPD(value.notes),
      status |-> apiExtractStatus(value.notes),
      lastContact |-> IF Len(value.notes) = 0 \/ Falsy(value.notes[1].notedate)
                      THEN "N/A" ELSE value.notes[1].notedate,
      noteCount |-> Len(value.notes),
      smsCount |-> Len(value.smsLogs),
      source |-> value.source ]

apiCustomerMap(notes, smsRecords) ==
    apiForEachSms(apiForEachNote(<<>>, notes), smsRecords)

\* What the handler sends for the rows its two queries returned
aggregateServer(notes, smsRecords) ==
    LET customerMap == apiCustomerMap(notes, smsRecords)
    IN  sortByDpd([i \in 1..Len(customerMap) |-> apiAccount(customerMap[i])])

\* ------------------------------------------------------ the fetch step
\* How the store answers the requests for one table: every request with
\* rows ("ok"), or, at the request number page (from 0), with an error
\* result ("error") or with a rejected promise ("throw").
Healthy == [kind |-> "ok", page |-> 0]

HealthyStore == [notes |-> Healthy, sms |-> Healthy]

\* supabase.from(tableName).select('*').range(from, to): rows from..to of the
\* table, counted from 0, as far as they exist
range(rows, from, to) ==
    SubSeq(rows, from + 1, IF to + 1 < Len(rows) THEN to + 1 ELSE Len(rows))

\* The while (hasMore) loop of fetchPaginatedData from page on, allData being
\* the rows of the pages before.  The result says whether the promise was
\* rejected (threw), which rows were returned, and whether the store failed a
\* request (storeFailed).
RECURSIVE fetchPages(_, _, _, _)
fetchPages(rows, plan, page, allData) ==
    IF plan.kind = "throw" /\ plan.page = page
    THEN [threw |-> TRUE, rows |-> <<>>, storeFailed |-> TRUE]
    ELSE IF plan.kind = "error" /\ plan.page = page
    THEN [threw |-> FALSE, rows |-> allData, storeFailed |-> TRUE]
    ELSE LET from == page * pageSize
             to == from + pageSize - 1
             data == range(rows, from, to)
         IN  IF Len(data) > 0 /\ Len(data) = pageSize
             THEN fetchPages(rows, plan, page + 1, allData \o data)
             ELSE [threw |-> FALSE, rows |-> allData \o data, storeFailed |-> FALSE]

fetchPaginatedData(rows, plan) == fetchPages(rows, plan, 0, <<>>)

\* await pool.query(...): the selected rows, or a rejected promise when the
\* store fails the query
poolQuery(rows, plan) ==
    IF plan.kind # "ok"
    THEN [threw |-> TRUE, rows |-> <<>>, storeFailed |-> TRUE]
    ELSE [threw |-> FALSE, rows |-> rows, storeFailed |-> FALSE]

\* A request that was never made
NotFetched == [threw |-> FALSE, rows |-> <<>>, storeFailed |-> FALSE]

\* How a fetch ended, without its rows
outcome(fetch) == [threw |-> fetch.threw, storeFailed |-> fetch.storeFailed]

\* Every list of at most n elements of S
SeqsUpTo(S, n) == UNION {[1..k -> S] : k \in 0..n}

\* impl: who ran the pass; fetched: how the two fetches ended; notes, sms: the
\* rows the grouping read; failed: the pass ended in an exception (client) or
\* in a 500 response (server); accounts: what it returned otherwise; prev:
\* what the pass before returned, when the same implementation ran it
NoPass ==
    [ impl |-> "none",
      fetched |-> [notes |-> outcome(NotFetched), sms |-> outcome(NotFetched)],
      notes |-> <<>>, sms |-> <<>>, failed |-> FALSE, accounts |-> <<>>,
      prev |-> <<>> ]

\* The accounts of the pass before, if implementation impl ran it
prevOf(impl) == IF pass.impl = impl THEN <<pass.accounts>> ELSE <<>>

\* No call of calculateRisk yet
NoRisk == [dpd |-> 0, status |-> NULL, balance |-> 0, level |-> "none", score |-> <<>>]

NoExtract == [impl |-> "none", status |-> "", dpd |-> 0]

\* No call of isValidValue or getSMSStats yet
NoCall == [fn |-> "none", arg |-> <<>>, result |-> <<>>]

\* No call of fetchAccounts or fetchAllSMSLogs yet
NoJob ==
    [ fn |-> "none", pc |-> "idle",
      loops |-> [t \in {"notes", "sms"} |->
                    [state |-> "off", page |-> 0, allData |-> <<>>,
                     inflight |-> {}, requested |-> 0]],
      notesData |-> <<>>, smsData |-> <<>>, accounts |-> <<>>, order |-> <<>> ]

\* No App is mounted
NoApp ==
    [ mode |-> "supabase", accounts |-> <<>>, selectedAccount |-> NULL,
      isLoading |-> FALSE, isRefreshing |-> FALSE, error |-> FALSE,
      mounted |-> FALSE, submitting |-> FALSE, submits |-> 0, calls |-> <<>> ]

\* No account list to select from
NoSel ==
    [ mode |-> "supabase", accounts |-> <<>>, selectedAccount |-> 0,
      noteHistory |-> <<>>, smsLogs |-> <<>>, inflight |-> {},
      selections |-> 0, failed |-> FALSE ]

\* No ChatInterface is mounted
NoChat ==
    [ account |-> NULL, messages |-> <<>>, storage |-> <<>>,
      pending |-> <<>>, effects |-> <<>>, isLoading |-> FALSE, sends |-> 0 ]

\* Table notehis is not looked at
NoDb == [ids |-> <<>>, unique |-> FALSE, calls |-> <<>>]

\* Nothing asynchronous is going on
AsyncIdle ==
    /\ job = NoJob
    /\ app = NoApp
    /\ sel = NoSel
    /\ chat = NoChat
    /\ db = NoDb

\* -------------------------------------------------- the aggregation passes
Init ==
    /\ notesData \in SeqsUpTo(NoteRows, MaxNotes)
    /\ smsData \in SeqsUpTo(SmsRows, MaxSms)
    /\ store = HealthyStore
    /\ pass = NoPass
    /\ exNotes = <<>>
    /\ exOut = NoExtract
    /\ risk = NoRisk
    /\ call = NoCall
    /\ AsyncIdle

\* fetchAccounts (client side, Supabase mode): both tables are fetched,
\* grouped, projected and sorted.  When either promise of Promise.all is
\* rejected the catch block logs it and both lists stay [].
FetchAccounts ==
    /\ LET n == fetchPaginatedData(notesData, store.notes)
           s == fetchPaginatedData(smsData, store.sms)
           rejected == n.threw \/ s.threw
           notes == IF rejected THEN <<>> ELSE n.rows
           sms == IF rejected THEN <<>> ELSE s.rows
       IN  pass' = [ impl |-> "client",
                     fetched |-> [notes |-> outcome(n), sms |-> outcome(s)],
                     notes |-> notes, sms |-> sms, failed |-> FALSE,
                     accounts |-> aggregateClient(notes, sms),
                     prev |-> prevOf("client") ]
    /\ UNCHANGED <<notesData, smsData, store, exNotes, exOut, risk, call, asyncVars>>

\* app.get('/api/accounts'): the two queries, then the same steps.  Neither
\* query has an ORDER BY; the rows are taken in the order of the table, and
\* pass.notes and pass.sms record the rows in the order the handler got them.
\* A rejected notes query goes to the outer catch (status 500); a rejected
\* SMS query is caught and leaves smsRecords = [].
ApiAccounts ==
    LET n == poolQuery(SelectSeq(notesData, apiNoteSelected), store.notes)
        s == IF n.threw THEN NotFetched
             ELSE poolQuery(SelectSeq(smsData, apiSmsSelected), store.sms)
        notes == n.rows
        smsRecords == s.rows
    IN  /\ pass' = [ impl |-> "server",
                     fetched |-> [notes |-> outcome(n), sms |-> outcome(s)],
                     notes |-> notes, sms |-> smsRecords, failed |-> n.threw,
                     accounts |-> IF n.threw THEN <<>>
                                  ELSE aggregateServer(notes, smsRecords),
                     prev |-> prevOf("server") ]
        /\ UNCHANGED <<notesData, smsData, store, exNotes, exOut, risk, call, asyncVars>>

Next == FetchAccounts \/ ApiAccounts

Spec == Init /\ [][Next]_vars

\* ------------------------------------- the passes over a failing store
\* Two customers per table, one of them in both tables
FetchNoteRows == {n \in NoteRows : n.custnumber \in {"C1", "C3"}}

FetchSmsRows == {m \in SmsRows : m.customer_number \in {"C3", "C4"}}

\* The store answers every request, or fails one of the requests a table of
\* MaxNotes rows can get
Plans ==
    {Healthy} \cup [kind : {"error", "throw"}, page : 0..(MaxNotes \div pageSize)]

InitFetch ==
    /\ notesData \in SeqsUpTo(FetchNoteRows, MaxNotes)
    /\ smsData \in SeqsUpTo(FetchSmsRows, MaxSms)
    /\ store \in [notes : Plans, sms : Plans]
    /\ pass = NoPass
    /\ exNotes = <<>>
    /\ exOut = NoExtract
    /\ risk = NoRisk
    /\ call = NoCall
    /\ AsyncIdle

SpecFetch == InitFetch /\ [][Next]_vars

\* --------------------------------------------- isValidValue on its own
\* Identifier texts: the placeholder words in several spellings, near misses
\* and ordinary identifiers; NULL is null / undefined
ValueWords ==
    { NULL, "", "null", "NULL", "Null", "n/a", "N/A", "none", "NONE", "None",
      "undefined", "UNDEFINED", "Undefined", "\tnone\n", "nul", "nulls", "NULL1",
      "n / a", "na", "non e", "undefine", "C1", "0", "false", "A-100" }

\* n spaces
RECURSIVE Spaces(_)
Spaces(n) == IF n = 0 THEN "" ELSE " " \o Spaces(n - 1)

\* The value handed to isValidValue: the word between left and right spaces
valueOf(arg) ==
    IF arg.word = NULL THEN NULL
    ELSE Spaces(arg.left) \o arg.word \o Spaces(arg.right)

InitValid ==
    /\ call \in [ fn : {"isValidValue"},
                   arg : [left : 0..MaxPad, word : ValueWords, right : 0..MaxPad],
                   result : {<<>>} ]
    /\ notesData = <<>>
    /\ smsData = <<>>
    /\ store = HealthyStore
    /\ pass = NoPass
    /\ exNotes = <<>>
    /\ exOut = NoExtract
    /\ risk = NoRisk
    /\ AsyncIdle

\* isValidValue(value) for the value at hand
IsValidValue ==
    /\ call.fn = "isValidValue"
    /\ call' = [call EXCEPT !.result = <<isValidValue(valueOf(call.arg))>>]
    /\ UNCHANGED <<notesData, smsData, store, pass, exNotes, exOut, risk, asyncVars>>

NextValid == IsValidValue

SpecValid == InitValid /\ [][NextValid]_vars

\* ---------------------------------------------- getSMSStats on its own
SuccessRow == CHOOSE m \in SmsRows : m.send_status = "Success"

FailedRow == CHOOSE m \in SmsRows : m.send_status = "FAILED"

\* The short lists over all rows, and lists of up to MaxStatSms rows of
\* which the first k were delivered
StatsInputs ==
    SeqsUpTo(SmsRows, MaxSms)
        \cup { [i \in 1..n |-> IF i <= k THEN SuccessRow ELSE FailedRow] :
                   n \in 0..MaxStatSms, k \in 0..MaxStatSms }

InitStats ==
    /\ call \in [fn : {"getSMSStats"}, arg : StatsInputs, result : {<<>>}]
    /\ notesData = <<>>
    /\ smsData = <<>>
    /\ store = HealthyStore
    /\ pass = NoPass
    /\ exNotes = <<>>
    /\ exOut = NoExtract
    /\ risk = NoRisk
    /\ AsyncIdle

\* getSMSStats(smsLogs) for the list at hand
GetSMSStats ==
    /\ call.fn = "getSMSStats"
    /\ call' = [call EXCEPT !.result = <<getSMSStats(call.arg)>>]
    /\ UNCHANGED <<notesData, smsData, store, pass, exNotes, exOut, risk, asyncVars>>

NextStats == GetSMSStats

SpecStats == InitStats /\ [][NextStats]_vars

\* ------------------------------------------- the extractor on its own
\* Lists of no-match notes up to MaxPlain reach the clamp of the heuristic.
ExtractorInputs ==
    SeqsUpTo(ExRows, MaxExNotes) \cup {[i \in 1..n |-> PlainNote] : n \in 0..MaxPlain}

InitExtract ==
    /\ exNotes \in ExtractorInputs
    /\ exOut = NoExtract
    /\ notesData = <<>>
    /\ smsData = <<>>
    /\ store = HealthyStore
    /\ pass = NoPass
    /\ risk = NoRisk
    /\ call = NoCall
    /\ AsyncIdle

\* status = extractStatus(notes); dpd = extractDPD(notes)  (client side)
ExtractClient ==
    /\ exOut' = [ impl |-> "client", status |-> extractStatus(exNotes),
                  dpd |-> extractDPD(exNotes) ]
    /\ UNCHANGED <<notesData, smsData, store, pass, exNotes, risk, call, asyncVars>>

\* dpd: extractDPD(value.notes), status: extractStatus(value.notes)  (server)
ExtractServer ==
    /\ exOut' = [ impl |-> "server", status |-> apiExtractStatus(exNotes),
                  dpd |-> apiExtractDPD(exNotes) ]
    /\ UNCHANGED <<notesData, smsData, store, pass, exNotes, risk, call, asyncVars>>

NextExtract == ExtractClient \/ ExtractServer

SpecExtract == InitExtract /\ [][NextExtract]_vars

\* ------------------------------------------ the risk classifier on its own
RiskStatuses ==
    { NULL, "", "Active", "Bankruptcy", "LEGAL", "Legal Action Pending", "Paid",
      "Promise to Pay", "SMS Only - Overdue", "Chapter 7 bankruptcy filed" }

\* Balances around the cap of the balance term (200 * 100), and a debit
Balances == {-500, 0, 1, 19999, 20000, 20001, 75000}

InitRisk ==
    /\ risk \in [ dpd : -1..MaxDpd, status : RiskStatuses, balance : Balances,
                   level : {"none"}, score : {<<>>} ]
    /\ notesData = <<>>
    /\ smsData = <<>>
    /\ store = HealthyStore
    /\ pass = NoPass
    /\ exNotes = <<>>
    /\ exOut = NoExtract
    /\ call = NoCall
    /\ AsyncIdle

\* calculateRisk(dpd, status) for the arguments at hand
CalculateRisk ==
    /\ risk' = [risk EXCEPT !.level = calculateRisk(risk.dpd, risk.status)]
    /\ UNCHANGED <<notesData, smsData, store, pass, exNotes, exOut, call, asyncVars>>

\* getPriorityScore(dpd, balance, status) for the arguments at hand; score
\* holds the result in hundredths
GetPriorityScore ==
    /\ risk' = [risk EXCEPT
                    !.score = <<getPriorityScore(risk.dpd, risk.balance, risk.status)>>]
    /\ UNCHANGED <<notesData, smsData, store, pass, exNotes, exOut, call, asyncVars>>

NextRisk == CalculateRisk \/ GetPriorityScore

SpecRisk == InitRisk /\ [][NextRisk]_vars

\* ------------------------- fetchAccounts and fetchAllSMSLogs, request by request
\* The two paginated fetches of fetchAccounts
Fetchers == {"notes", "sms"}

\* The while (hasMore) loop of one fetch.  state: off, running (a request is
\* awaited), returned (return allData), rejected (the awaited request threw);
\* page and allData: the loop's variables; inflight: the pages requested and
\* not yet answered; requested: how many requests the loop has made
NoLoop ==
    [state |-> "off", page |-> 0, allData |-> <<>>, inflight |-> {}, requested |-> 0]

\* The loop at its first await: page 0 is requested
startLoop ==
    [state |-> "running", page |-> 0, allData |-> <<>>, inflight |-> {0}, requested |-> 1]

\* The loop from the answer to the request of page p up to its next await or
\* its return: a thrown request rejects the promise, an error result breaks
\* out of the loop, a full page is appended and the next page is requested, a
\* short or empty page ends the loop
afterPage(loop, p, rows, plan) ==
    IF plan.kind = "throw" /\ plan.page = p
    THEN [loop EXCEPT !.state = "rejected", !.inflight = @ \ {p}]
    ELSE IF plan.kind = "error" /\ plan.page = p
    THEN [loop EXCEPT !.state = "returned", !.inflight = @ \ {p}]
    ELSE LET from == p * pageSize
             to == from + pageSize - 1
             data == range(rows, from, to)
         IN  IF Len(data) > 0
             THEN IF Len(data) = pageSize
                  THEN [loop EXCEPT !.allData = @ \o data, !.page = @ + 1,
                                    !.inflight = (@ \ {p}) \cup {loop.page + 1},
                                    !.requested = @ + 1]
                  ELSE [loop EXCEPT !.allData = @ \o data, !.page = @ + 1,
                                    !.state = "returned", !.inflight = @ \ {p}]
             ELSE [loop EXCEPT !.state = "returned", !.inflight = @ \ {p}]

\* .order('sms_id', { ascending: false }): the rows of the model carry no
\* sms_id; the table lists them by ascending sms_id, so this is the table
\* from its last row to its first
orderBySmsIdDesc(rows) == [i \in 1..Len(rows) |-> rows[Len(rows) + 1 - i]]

\* The rows of a table in every order
orderings(rows) ==
    {[i \in 1..Len(rows) |-> rows[f[i]]] : f \in Permutations(1..Len(rows))}

\* The rows a request of fetcher t selects from, in the orders the store may
\* return them: fetchPaginatedData sends select('*').range(from, to) without
\* an order (its _orderBy parameter is unused), which leaves the order of the
\* rows to the store, request by request; fetchAllSMSLogs orders by sms_id
storeOrders(fn, t) ==
    IF fn = "fetchAllSMSLogs" THEN {orderBySmsIdDesc(smsData)}
    ELSE orderings(IF t = "notes" THEN notesData ELSE smsData)

\* A plausible slip: the first promise to settle resumes the caller
\* (Promise.race instead of Promise.all).
promiseAllSettled_Race(loops) ==
    \E t \in Fetchers : loops[t].state \in {"returned", "rejected"}

\* await Promise.all([...]) resumes: every promise is fulfilled, or one of
\* them is rejected
promiseAllSettled(loops) ==
    \/ \A t \in Fetchers : loops[t].state = "returned"
    \/ \E t \in Fetchers : loops[t].state = "rejected"

\* fetchAccounts (Supabase mode) is called: Promise.all starts both fetches,
\* each runs up to its first await
CallFetchAccounts ==
    /\ job.fn = "none"
    /\ job' = [ fn |-> "fetchAccounts", pc |-> "awaiting",
                loops |-> [t \in Fetchers |-> startLoop],
                notesData |-> <<>>, smsData |-> <<>>, accounts |-> <<>>,
                order |-> <<>> ]
    /\ UNCHANGED <<coreVars, app, sel, chat, db>>

\* fetchAllSMSLogs is called and runs up to its first await
CallFetchAllSMSLogs ==
    /\ job.fn = "none"
    /\ job' = [ fn |-> "fetchAllSMSLogs", pc |-> "awaiting",
                loops |-> [t \in Fetchers |-> IF t = "sms" THEN startLoop ELSE NoLoop],
                notesData |-> <<>>, smsData |-> <<>>, accounts |-> <<>>,
                order |-> <<>> ]
    /\ UNCHANGED <<coreVars, app, sel, chat, db>>

\* The store answers a request of fetcher t and the loop of t runs on to its
\* next await or to its end
PageReturns(t) ==
    /\ job.loops[t].state = "running"
    /\ \E p \in job.loops[t].inflight, rows \in storeOrders(job.fn, t) :
          job' = [job EXCEPT !.loops[t] = afterPage(@, p, rows, store[t]),
                             !.order = Append(@, t)]
    /\ UNCHANGED <<coreVars, app, sel, chat, db>>

\* fetchAccounts after await Promise.all: the results are taken, or the catch
\* block leaves both lists [], and the lists are grouped, projected and sorted
FetchAccountsResumes ==
    /\ job.fn = "fetchAccounts"
    /\ job.pc = "awaiting"
    /\ promiseAllSettled(job.loops)
    /\ LET rejected == \E t \in Fetchers : job.loops[t].state = "rejected"
           notes == IF rejected THEN <<>> ELSE job.loops["notes"].allData
           sms == IF rejected THEN <<>> ELSE job.loops["sms"].allData
       IN  job' = [job EXCEPT !.pc = "done", !.notesData = notes, !.smsData = sms,
                              !.accounts = aggregateClient(notes, sms)]
    /\ UNCHANGED <<coreVars, app, sel, chat, db>>

\* fetchAllSMSLogs settles: return allData, or the rejection goes to the caller
FetchAllSMSLogsSettles ==
    /\ job.fn = "fetchAllSMSLogs"
    /\ job.pc = "awaiting"
    /\ job.loops["sms"].state \in {"returned", "rejected"}
    /\ job' = [job EXCEPT !.pc = IF job.loops["sms"].state = "returned"
                                 THEN "done" ELSE "rejected",
                          !.smsData = job.loops["sms"].allData]
    /\ UNCHANGED <<coreVars, app, sel, chat, db>>

InitPages ==
    /\ notesData \in SeqsUpTo(FetchNoteRows, MaxNotes)
    /\ smsData \in SeqsUpTo(FetchSmsRows, MaxSms)
    /\ store \in [notes : Plans, sms : Plans]
    /\ pass = NoPass
    /\ exNotes = <<>>
    /\ exOut = NoExtract
    /\ risk = NoRisk
    /\ call = NoCall
    /\ AsyncIdle

NextPages ==
    \/ CallFetchAccounts
    \/ CallFetchAllSMSLogs
    \/ \E t \in Fetchers : PageReturns(t)
    \/ FetchAccountsResumes
    \/ FetchAllSMSLogsSettles

SpecPages == InitPages /\ [][NextPages]_vars

\* The store answers every request it is sent
SpecPagesFair == SpecPages /\ \A t \in Fetchers : WF_vars(PageReturns(t))

\* -------------------------------------------------------- App: loadAccounts
\* const API_MODE = !!import.meta.env.VITE_API_URL: fetchAccounts aggregates
\* in the browser over Supabase, or relays GET /api/accounts
Modes == {"supabase", "api"}

\* Rows the tables hold when App mounts, and rows the Add Account form adds
AppNoteRows == {n \in NoteRows : n.custnumber \in {"C1", "C2"}}

AppSmsRows == {m \in SmsRows : m.customer_number = "C3"}

\* App after useState: no accounts, nothing selected, isLoading
InitialApp(mode) ==
    [ mode |-> mode, accounts |-> <<>>, selectedAccount |-> NULL,
      isLoading |-> TRUE, isRefreshing |-> FALSE, error |-> FALSE,
      mounted |-> FALSE, submitting |-> FALSE, submits |-> 0, calls |-> <<>> ]

\* loadAccounts up to await fetchAccounts(): the flag of the kind of load is
\* set, the error is cleared and the requests go out.  The call keeps the
\* selectedAccount of the render that made it.
loadAccounts(a, isRefresh) ==
    [a EXCEPT !.isRefreshing = IF isRefresh THEN TRUE ELSE @,
              !.isLoading = IF isRefresh THEN @ ELSE TRUE,
              !.error = FALSE,
              !.calls = Append(@, [ pc |-> "fetching",
                                    selectedAccount |-> a.selectedAccount,
                                    notes |-> <<>>, sms |-> <<>>,
                                    failed |-> FALSE, data |-> <<>> ])]

\* What fetchAccounts resolves to for the rows the store answers with
fetchAccounts(mode, notes, sms) ==
    IF mode = "supabase" THEN aggregateClient(notes, sms)
    ELSE aggregateServer(SelectSeq(notes, apiNoteSelected), SelectSeq(sms, apiSmsSelected))

\* A plausible slip: the accounts that arrive are added to the list on
\* display.
loadAccountsSettles_Append(a, c) ==
    [a EXCEPT !.accounts = @ \o c.data, !.isLoading = FALSE, !.isRefreshing = FALSE]

\* loadAccounts after the await, for call c: setAccounts(data), and the first
\* account is selected when the render of the call had none; or the catch
\* block sets the error; finally both flags are cleared
loadAccountsSettles(a, c) ==
    IF c.failed
    THEN [a EXCEPT !.error = TRUE, !.isLoading = FALSE, !.isRefreshing = FALSE]
    ELSE [a EXCEPT !.accounts = c.data,
                   !.selectedAccount =
                       IF Len(c.data) > 0 /\ c.selectedAccount = NULL
                       THEN c.data[1].id ELSE @,
                   !.isLoading = FALSE, !.isRefreshing = FALSE]

\* The dashboard is rendered (neither the spinner nor the error screen)
dashboardShown == ~app.isLoading /\ ~app.error

\* useEffect(() => { loadAccounts(); }, [])
Mount ==
    /\ ~app.mounted
    /\ app' = [loadAccounts(app, FALSE) EXCEPT !.mounted = TRUE]
    /\ UNCHANGED <<coreVars, job, sel, chat, db>>

\* The Sync button of CommandBar, disabled while isRefreshing
Sync ==
    /\ dashboardShown
    /\ ~app.isRefreshing
    /\ Len(app.calls) < MaxLoads
    /\ app' = loadAccounts(app, TRUE)
    /\ UNCHANGED <<coreVars, job, sel, chat, db>>

\* The Retry Connection button of the error screen
Retry ==
    /\ ~app.isLoading
    /\ app.error
    /\ Len(app.calls) < MaxLoads
    /\ app' = loadAccounts(app, FALSE)
    /\ UNCHANGED <<coreVars, job, sel, chat, db>>

\* The Add Account form is submitted (App with the AddAccountModal) and
\* addNote inserts the row
SubmitAccount(note) ==
    /\ dashboardShown
    /\ ~app.submitting
    /\ app.submits < MaxSubmits
    /\ notesData' = Append(notesData, note)
    /\ app' = [app EXCEPT !.submitting = TRUE, !.submits = @ + 1]
    /\ UNCHANGED <<smsData, store, pass, exNotes, exOut, risk, call, job, sel, chat, db>>

\* handleSubmit after await addNote: onAccountAdded(), which is
\* handleAccountAdded: loadAccounts(true)
AccountAdded ==
    /\ app.submitting
    /\ Len(app.calls) < MaxLoads
    /\ app' = [loadAccounts(app, TRUE) EXCEPT !.submitting = FALSE]
    /\ UNCHANGED <<coreVars, job, sel, chat, db>>

\* The store answers the requests of call c from the rows it holds now; in
\* API mode the request may fail (fetchAccountsFromAPI throws), in Supabase
\* mode fetchAccounts resolves whatever happens
StoreAnswers(c, ok) ==
    /\ c \in 1..Len(app.calls)
    /\ app.calls[c].pc = "fetching"
    /\ ok \/ app.mode = "api"
    /\ app' = [app EXCEPT !.calls[c] =
                  IF ok
                  THEN [@ EXCEPT !.pc = "answered", !.notes = notesData, !.sms = smsData,
                                 !.data = fetchAccounts(app.mode, notesData, smsData)]
                  ELSE [@ EXCEPT !.pc = "answered", !.failed = TRUE]]
    /\ UNCHANGED <<coreVars, job, sel, chat, db>>

\* The answer of call c reaches the browser and loadAccounts goes on
LoadSettles(c) ==
    /\ c \in 1..Len(app.calls)
    /\ app.calls[c].pc = "answered"
    /\ app' = [loadAccountsSettles(app, app.calls[c]) EXCEPT !.calls[c].pc = "settled"]
    /\ UNCHANGED <<coreVars, job, sel, chat, db>>

InitApp ==
    /\ notesData \in SeqsUpTo(AppNoteRows, 1)
    /\ smsData \in SeqsUpTo(AppSmsRows, 1)
    /\ store = HealthyStore
    /\ pass = NoPass
    /\ exNotes = <<>>
    /\ exOut = NoExtract
    /\ risk = NoRisk
    /\ call = NoCall
    /\ job = NoJob
    /\ app \in {InitialApp(mode) : mode \in Modes}
    /\ sel = NoSel
    /\ chat = NoChat
    /\ db = NoDb

NextApp ==
    \/ Mount
    \/ Sync
    \/ Retry
    \/ \E note \in AppNoteRows : SubmitAccount(note)
    \/ AccountAdded
    \/ \E c \in 1..MaxLoads, ok \in BOOLEAN : StoreAnswers(c, ok)
    \/ \E c \in 1..MaxLoads : LoadSettles(c)

SpecApp == InitApp /\ [][NextApp]_vars

\* ------------------------------------------- App: the selected account
\* The dates of the rows of the model, oldest first
KnownDates ==
    << "2024-01-01", "2024-01-02", "2024-01-03", "2024-01-05",
       "2024-02-01", "2024-02-02", "2024-02-03" >>

\* The place of a date in a descending order: a later date comes first, and
\* a row without a date before every dated row (the default of the store
\* for DESC)
dateRank(date) ==
    IF date = NULL THEN Len(KnownDates) + 1
    ELSE CHOOSE i \in 1..Len(KnownDates) : KnownDates[i] = date

RECURSIVE insertByDate(_, _, _)
\* Row r, of date rank k, goes behind the rows already placed whose rank is
\* not lower; ranks lists the ranks of the rows of sorted
insertByDate(sorted, ranks, r) ==
    IF sorted = <<>> THEN <<r.row>>
    ELSE IF Head(ranks) >= r.rank
         THEN <<Head(sorted)>> \o insertByDate(Tail(sorted), Tail(ranks), r)
         ELSE <<r.row>> \o sorted

RECURSIVE orderByNotedateDesc(_)
\* .order('notedate', { ascending: false }) | ORDER BY notedate DESC
orderByNotedateDesc(rows) ==
    IF rows = <<>> THEN <<>>
    ELSE LET rest == orderByNotedateDesc(SubSeq(rows, 1, Len(rows) - 1))
             last == rows[Len(rows)]
         IN  insertByDate(rest, [i \in 1..Len(rest) |-> dateRank(rest[i].notedate)],
                          [row |-> last, rank |-> dateRank(last.notedate)])

RECURSIVE orderByDateSentDesc(_)
\* .order('date_sent', { ascending: false }) | ORDER BY date_sent DESC
orderByDateSentDesc(rows) ==
    IF rows = <<>> THEN <<>>
    ELSE LET rest == orderByDateSentDesc(SubSeq(rows, 1, Len(rows) - 1))
             last == rows[Len(rows)]
         IN  insertByDate(rest, [i \in 1..Len(rest) |-> dateRank(rest[i].date_sent)],
                          [row |-> last, rank |-> dateRank(last.date_sent)])

\* fetchNoteHistory(accnumber): the notes of the account, latest first
fetchNoteHistory(rows, accnumber) ==
    LET ofAccount(note) == note.accnumber = accnumber
    IN  orderByNotedateDesc(SelectSeq(rows, ofAccount))

\* fetchSMSLogs(customerNumber): the SMS of the customer, latest first
fetchSMSLogs(rows, customerNumber) ==
    LET ofCustomer(sms) == sms.customer_number = customerNumber
    IN  orderByDateSentDesc(SelectSeq(rows, ofCustomer))

\* The tables while the agent goes through the accounts: notes of one or two
\* customers, SMS of another
SelNoteTables ==
    { <<>>,
      <<Note("C1", "A1", "Customer filed for bankruptcy", NULL, NULL, "2024-01-01")>>,
      <<Note("C1", "A1", "Customer filed for bankruptcy", NULL, NULL, "2024-01-01"),
        Note("C2", "NULL", "Letter sent", "LEGAL", "95 days past due", "2024-01-05"),
        Note(" C1 ", "A2", "customer is 45 DPD", NULL, NULL, "2024-01-02")>> }

SelSmsTables ==
    { <<>>,
      <<Sms("C3", "Your loan is late by 45 days", "Success", "2024-02-01")>> }

\* The fetches the effect of [selectedAccount] may send: the place of the
\* account in the list and the number of the selection
Requests == [kind : {"notes", "sms"}, account : 1..MaxNotes, n : 1..MaxSelections]

\* App after the accounts were loaded: nothing selected, no records
InitialSel(mode, accounts) ==
    [ mode |-> mode, accounts |-> accounts, selectedAccount |-> 0,
      noteHistory |-> <<>>, smsLogs |-> <<>>, inflight |-> {},
      selections |-> 0, failed |-> FALSE ]

\* setSelectedAccount(account), by loadAccounts for the first account or by
\* onSelectAccount of the Sidebar, and the effect of [selectedAccount]: both
\* fetches of the account go out.  Selecting the selected account again
\* changes no state and runs no effect.
SelectAccount(i) ==
    /\ i \in 1..Len(sel.accounts)
    /\ i # sel.selectedAccount
    /\ sel.selections < MaxSelections
    /\ sel' = [sel EXCEPT
                  !.selectedAccount = i,
                  !.selections = @ + 1,
                  !.inflight = @ \cup { [kind |-> k, account |-> i, n |-> sel.selections + 1] :
                                          k \in {"notes", "sms"} }]
    /\ UNCHANGED <<coreVars, job, app, chat, db>>

\* The answer of fetchNoteHistory request r arrives: .then(setNoteHistory).
\* A failed request throws on the Supabase path, and nothing is set; through
\* the API it resolves to [].
NoteHistoryArrives(r, ok) ==
    /\ r \in sel.inflight
    /\ r.kind = "notes"
    /\ sel' = [sel EXCEPT
                  !.inflight = @ \ {r},
                  !.failed = @ \/ ~ok,
                  !.noteHistory =
                      IF ok THEN fetchNoteHistory(notesData, sel.accounts[r.account].accnumber)
                      ELSE IF sel.mode = "api" THEN <<>>
                      ELSE @]
    /\ UNCHANGED <<coreVars, job, app, chat, db>>

\* The answer of fetchSMSLogs request r arrives: .then(setSmsLogs).  A failed
\* request resolves to [] on both paths.
SmsLogsArrives(r, ok) ==
    /\ r \in sel.inflight
    /\ r.kind = "sms"
    /\ sel' = [sel EXCEPT
                  !.inflight = @ \ {r},
                  !.failed = @ \/ ~ok,
                  !.smsLogs =
                      IF ok THEN fetchSMSLogs(smsData, sel.accounts[r.account].custnumber)
                      ELSE <<>>]
    /\ UNCHANGED <<coreVars, job, app, chat, db>>

InitSelect ==
    /\ notesData \in SelNoteTables
    /\ smsData \in SelSmsTables
    /\ store = HealthyStore
    /\ pass = NoPass
    /\ exNotes = <<>>
    /\ exOut = NoExtract
    /\ risk = NoRisk
    /\ call = NoCall
    /\ job = NoJob
    /\ app = NoApp
    /\ sel \in {InitialSel(mode, aggregateClient(notesData, smsData)) : mode \in Modes}
    /\ chat = NoChat
    /\ db = NoDb

NextSelect ==
    \/ \E i \in 1..MaxNotes : SelectAccount(i)
    \/ \E r \in Requests, ok \in BOOLEAN : NoteHistoryArrives(r, ok)
    \/ \E r \in Requests, ok \in BOOLEAN : SmsLogsArrives(r, ok)

SpecSelect == InitSelect /\ [][NextSelect]_vars

\* ---------------------------------------------------------- ChatInterface
\* The account numbers of the accounts the agent switches between
ChatAccounts == {"A1", "A2"}

\* const getStorageKey = (accountNumber) => `ecollect_chat_${accountNumber}`
getStorageKey(accountNumber) == "ecollect_chat_" \o accountNumber

StorageKeys == {getStorageKey(a) : a \in ChatAccounts}

\* A chat message.  role: user or assistant as in the code, with the welcome
\* and the apology told apart; conv: the account of the render whose handler
\* made the message (the code keeps no such field, the model uses it to tell
\* the conversations apart).  JSON.stringify and JSON.parse with the
\* timestamp conversion of the load effect keep both.
Message(role, conv) == [role |-> role, conv |-> conv]

\* The passive effects of a commit, in the order of their declaration: the
\* load effect when account (or notes.length) changed, the save effect when
\* messages or account changed.  Each is a closure over the account and the
\* messages of its render.
loadEffect(account) == [kind |-> "load", account |-> account, messages |-> <<>>]

saveEffect(account, messages) == [kind |-> "save", account |-> account, messages |-> messages]

\* createWelcomeMessage: setMessages([welcomeMessage])
createWelcomeMessage(account) == <<Message("welcome", account)>>

\* The localStorage key the save effect of a render writes
saveKey(account) == getStorageKey(account)

\* ChatInterface before it is given an account
InitialChat ==
    [ account |-> NULL, messages |-> <<>>,
      storage |-> [k \in StorageKeys |-> <<>>],
      pending |-> <<>>, effects |-> <<>>, isLoading |-> FALSE, sends |-> 0 ]

\* App renders ChatInterface with another account: both effects have account
\* among their dependencies and run with the messages still on display
ChatSelectAccount(b) ==
    /\ chat.effects = <<>>
    /\ b # chat.account
    /\ chat' = [chat EXCEPT !.account = b,
                            !.effects = <<loadEffect(b), saveEffect(b, chat.messages)>>]
    /\ UNCHANGED <<coreVars, job, app, sel, db>>

\* notes.length changes (the note history of the account arrives): the load
\* effect runs again
NotesLengthChanges ==
    /\ chat.effects = <<>>
    /\ chat.account # NULL
    /\ chat' = [chat EXCEPT !.effects = <<loadEffect(chat.account)>>]
    /\ UNCHANGED <<coreVars, job, app, sel, db>>

\* The load effect: the saved messages of the account are put on display, or
\* the welcome message when nothing is saved; the new messages make a render
\* whose save effect runs after the effects of this commit
RunLoadEffect ==
    /\ chat.effects # <<>>
    /\ Head(chat.effects).kind = "load"
    /\ LET account == Head(chat.effects).account
           savedMessages == chat.storage[getStorageKey(account)]
           shown == IF savedMessages # <<>> THEN savedMessages
                    ELSE createWelcomeMessage(account)
       IN  chat' = [chat EXCEPT !.messages = shown,
                                !.effects = Append(Tail(@), saveEffect(chat.account, shown))]
    /\ UNCHANGED <<coreVars, job, app, sel, db>>

\* The save effect: the messages of its render go under the key of the
\* account of its render, unless there are none
RunSaveEffect ==
    /\ chat.effects # <<>>
    /\ Head(chat.effects).kind = "save"
    /\ LET effect == Head(chat.effects)
       IN  chat' = [chat EXCEPT
                       !.storage = IF effect.account # NULL /\ Len(effect.messages) > 0
                                   THEN [@ EXCEPT ![saveKey(effect.account)] = effect.messages]
                                   ELSE @,
                       !.effects = Tail(@)]
    /\ UNCHANGED <<coreVars, job, app, sel, db>>

\* handleSend up to await generateAIResponse: the user message is appended
\* and the request goes out.  The Send button is disabled while isLoading,
\* the Enter key is not.
HandleSend ==
    /\ chat.effects = <<>>
    /\ chat.account # NULL
    /\ chat.sends < MaxSends
    /\ LET shown == Append(chat.messages, Message("user", chat.account))
       IN  chat' = [chat EXCEPT !.messages = shown,
                                !.pending = Append(@, chat.account),
                                !.isLoading = TRUE,
                                !.sends = @ + 1,
                                !.effects = <<saveEffect(chat.account, shown)>>]
    /\ UNCHANGED <<coreVars, job, app, sel, db>>

\* handleSend after the await: the reply of request i, or the apology of the
\* catch block when the request failed, is appended to the messages on
\* display by setMessages(prev => [...prev, message])
ReplyArrives(i, role) ==
    /\ chat.effects = <<>>
    /\ i \in 1..Len(chat.pending)
    /\ LET shown == Append(chat.messages, Message(role, chat.pending[i]))
       IN  chat' = [chat EXCEPT !.messages = shown,
                                !.pending = SubSeq(@, 1, i - 1) \o SubSeq(@, i + 1, Len(@)),
                                !.isLoading = FALSE,
                                !.effects = <<saveEffect(chat.account, shown)>>]
    /\ UNCHANGED <<coreVars, job, app, sel, db>>

\* clearConversation: the item of the account is removed and the welcome
\* message is shown
ClearConversation ==
    /\ chat.effects = <<>>
    /\ chat.account # NULL
    /\ LET shown == createWelcomeMessage(chat.account)
       IN  chat' = [chat EXCEPT !.storage[getStorageKey(chat.account)] = <<>>,
                                !.messages = shown,
                                !.effects = <<saveEffect(chat.account, shown)>>]
    /\ UNCHANGED <<coreVars, job, app, sel, db>>

InitChat ==
    /\ notesData = <<>>
    /\ smsData = <<>>
    /\ store = HealthyStore
    /\ pass = NoPass
    /\ exNotes = <<>>
    /\ exOut = NoExtract
    /\ risk = NoRisk
    /\ call = NoCall
    /\ job = NoJob
    /\ app = NoApp
    /\ sel = NoSel
    /\ chat = InitialChat
    /\ db = NoDb

NextChat ==
    \/ \E b \in ChatAccounts : ChatSelectAccount(b)
    \/ NotesLengthChanges
    \/ RunLoadEffect
    \/ RunSaveEffect
    \/ HandleSend
    \/ \E i \in 1..MaxSends, role \in {"assistant", "error"} : ReplyArrives(i, role)
    \/ ClearConversation

SpecChat == InitChat /\ [][NextChat]_vars

\* ------------------------------------------------------------------ addNote
\* The two implementations: addNote against Supabase (dataService.ts) and the
\* POST /api/notehis handler, which addNote reaches through addNoteFromAPI in
\* API mode
AddNotePaths == {"client", "server"}

\* The ids of table notehis before the first call
InitialIds == {<<>>, <<1>>, <<1, 2>>, <<4, 2>>}

RECURSIVE maxId(_)
\* The largest id of the table, 0 for an empty table
maxId(ids) ==
    IF ids = <<>> THEN 0
    ELSE LET rest == maxId(Tail(ids))
         IN  IF Head(ids) > rest THEN Head(ids) ELSE rest

\* const nextId = (maxIdData && maxIdData.length > 0) ? maxIdData[0].id + 1 : 1
\* for select('id').order('id', { ascending: false }).limit(1); the error of
\* the request is not read, and a failed request leaves maxIdData null
clientNextId(ids, answered) ==
    IF answered /\ Len(ids) > 0 THEN maxId(ids) + 1 ELSE 1

\* SELECT COALESCE(MAX(id), 0) + 1 as next_id FROM notehis
serverNextId(ids) == maxId(ids) + 1

\* No addNote call yet.  ids: the id column of notehis, row by row; unique:
\* whether the table rejects a second row with an id it already holds (the
\* schema is not part of the repository); calls: the calls of addNote, each
\* with its path, its position (select, insert, done, failed), whether its
\* first request was answered, the nextId it computed and the largest id of
\* the table when its row went in
NoCalls(ids, unique) == [ids |-> ids, unique |-> unique, calls |-> <<>>]

\* addNote / POST /api/notehis is called: the request for the largest id
\* goes out
CallAddNote(path) ==
    /\ Len(db.calls) < MaxAdds
    /\ db' = [db EXCEPT !.calls =
                 Append(@, [path |-> path, pc |-> "select", answered |-> FALSE,
                            nextId |-> 0, maxBefore |-> 0])]
    /\ UNCHANGED <<coreVars, job, app, sel, chat>>

\* The store answers the first request of call c, or fails it: the client
\* goes on with what it got, the server's await throws into the catch block
\* (status 500)
MaxIdReturns(c, answered) ==
    /\ c \in 1..Len(db.calls)
    /\ db.calls[c].pc = "select"
    /\ db' = [db EXCEPT !.calls[c] =
                 IF db.calls[c].path = "client"
                 THEN [@ EXCEPT !.pc = "insert", !.answered = answered,
                                !.nextId = clientNextId(db.ids, answered)]
                 ELSE IF answered
                 THEN [@ EXCEPT !.pc = "insert", !.answered = TRUE,
                                !.nextId = serverNextId(db.ids)]
                 ELSE [@ EXCEPT !.pc = "failed"]]
    /\ UNCHANGED <<coreVars, job, app, sel, chat>>

\* The store runs the insert of call c: the row goes in with id nextId,
\* unless the table rejects the id, and then the client throws the error
\* and the server answers 500
InsertReturns(c) ==
    /\ c \in 1..Len(db.calls)
    /\ db.calls[c].pc = "insert"
    /\ LET nextId == db.calls[c].nextId
           rejected == db.unique /\ \E i \in 1..Len(db.ids) : db.ids[i] = nextId
       IN  db' = IF rejected
                 THEN [db EXCEPT !.calls[c].pc = "failed"]
                 ELSE [db EXCEPT !.ids = Append(@, nextId),
                                 !.calls[c].pc = "done",
                                 !.calls[c].maxBefore = maxId(db.ids)]
    /\ UNCHANGED <<coreVars, job, app, sel, chat>>

InitAddNote ==
    /\ notesData = <<>>
    /\ smsData = <<>>
    /\ store = HealthyStore
    /\ pass = NoPass
    /\ exNotes = <<>>
    /\ exOut = NoExtract
    /\ risk = NoRisk
    /\ call = NoCall
    /\ job = NoJob
    /\ app = NoApp
    /\ sel = NoSel
    /\ chat = NoChat
    /\ db \in {NoCalls(ids, unique) : ids \in InitialIds, unique \in BOOLEAN}

NextAddNote ==
    \/ \E path \in AddNotePaths : CallAddNote(path)
    \/ \E c \in 1..MaxAdds, answered \in BOOLEAN : MaxIdReturns(c, answered)
    \/ \E c \in 1..MaxAdds : InsertReturns(c)

SpecAddNote == InitAddNote /\ [][NextAddNote]_vars

\* ================================================================ claims
\* The accounts of the last pass, as a set of positions
Accounts == 1..Len(pass.accounts)

\* A placeholder identifier: falsy, or "", NULL, N/A, NONE, UNDEFINED after
\* trimming, in any letter case
IsPlaceholder(v) ==
    Falsy(v) \/ toUpperCase(trim(v)) \in {"", "NULL", "N/A", "NONE", "UNDEFINED"}

RECURSIVE SumNoteCount(_)
SumNoteCount(accounts) ==
    IF accounts = <<>> THEN 0 ELSE Head(accounts).noteCount + SumNoteCount(Tail(accounts))

RECURSIVE SumSmsCount(_)
SumSmsCount(accounts) ==
    IF accounts = <<>> THEN 0 ELSE Head(accounts).smsCount + SumSmsCount(Tail(accounts))

\* The SMS rows the pass read for the customer of account a, in input order
SmsOfAccount(a) ==
    LET Mine(sms) == trim(OrEmpty(sms.customer_number)) = trim(a.id)
    IN  SelectSeq(pass.sms, Mine)

C2_SourceTag ==
    \A i \in Accounts :
        LET a == pass.accounts[i]
        IN  /\ a.source = "both" <=> (a.noteCount > 0 /\ a.smsCount > 0)
            /\ a.source = "notes" <=> (a.noteCount > 0 /\ a.smsCount = 0)
            /\ a.source = "sms" <=> a.noteCount = 0
            /\ a.smsCount > 0 => a.source \in {"sms", "both"}
            /\ a.noteCount > 0 => a.source \in {"notes", "both"}

C2_Witness ==
    /\ pass.impl = "client"
    /\ \E i, j, k \in Accounts :
          /\ pass.accounts[i].source = "both"
          /\ pass.accounts[j].source = "notes"
          /\ pass.accounts[k].source = "sms"

\* C3: no two accounts of one pass have the same id.
C3_UniqueIds ==
    \A i, j \in Accounts : pass.accounts[i].id = pass.accounts[j].id => i = j

\* One customer met under three spellings of its key, in both sources
C3_Witness ==
    /\ pass.impl = "client"
    /\ \E m, n \in 1..Len(pass.notes) :
          pass.notes[m].custnumber = "C1" /\ pass.notes[n].custnumber = " C1 "
    /\ \E m \in 1..Len(pass.sms) : pass.sms[m].customer_number = "C1 "
    /\ \E i \in Accounts :
          /\ pass.accounts[i].id = "C1"
          /\ pass.accounts[i].noteCount >= 2
          /\ pass.accounts[i].smsCount >= 1

\* C4: a record whose customer identifier is a placeholder contributes to no
\* account, in either implementation: no account has a placeholder as id, and
\* the counts add up to no more than the records with a usable identifier.
C4_PlaceholdersDropped ==
    /\ \A i \in Accounts : ~IsPlaceholder(pass.accounts[i].id)
    /\ SumNoteCount(pass.accounts) <=
          Cardinality({k \in 1..Len(pass.notes) : ~IsPlaceholder(pass.notes[k].custnumber)})
    /\ SumSmsCount(pass.accounts) <=
          Cardinality({k \in 1..Len(pass.sms) : ~IsPlaceholder(pass.sms[k].customer_number)})

\* C5: an account of a customer with SMS but no notes has the dpd of the
\* first SMS, in input order, that says "late by <digits> days" (0 when none
\* does) and status "SMS Only - Overdue" above 30, "SMS Only" otherwise, in
\* either implementation.
C5_SmsOnlyAccount ==
    \A i \in Accounts :
        LET a == pass.accounts[i]
            logs == SmsOfAccount(a)
            hits == {k \in 1..Len(logs) : messageLateBy(logs[k]) # <<>>}
            dpd == IF hits = {} THEN 0 ELSE parseInt(messageLateBy(logs[Min(hits)])[1])
        IN  (a.noteCount = 0 /\ a.smsCount > 0) =>
                /\ a.dpd = dpd
                /\ a.status = IF dpd > 30 THEN "SMS Only - Overdue" ELSE "SMS Only"

\* The keywords in the order of the table
KeywordOrder ==
    << "bankruptcy", "legal", "promise to pay", "ptp", "paid", "dispute",
       "broken", "skip", "deceased", "settlement", "arrangement" >>

KeywordsOf ==
    [note \in KnownNotes |->
        {k \in 1..Len(KeywordOrder) :
            includes(toLowerCase(noteContent(note)), KeywordOrder[k])}]

KeywordsIn(note) == KeywordsOf[note]

\* C6: extractStatus returns the status of the first keyword, in table
\* order, contained in the earliest note that contains any keyword, and
\* "Active" when no note contains one (the empty list included).
C6_FirstNoteFirstKeyword ==
    exOut.impl # "none" =>
        LET hits == {n \in 1..Len(exNotes) : KeywordsIn(exNotes[n]) # {}}
        IN  IF hits = {} THEN exOut.status = "Active"
            ELSE exOut.status = statusKeywords[Min(KeywordsIn(exNotes[Min(hits)]))].status

\* An earlier note with a later-listed keyword (paid, skip) beats a later
\* note with the first keyword of the table
C6_Witness ==
    /\ exOut.impl = "client"
    /\ Len(exNotes) = 2
    /\ KeywordsIn(exNotes[1]) = {5, 8}
    /\ KeywordsIn(exNotes[2]) = {1}
    /\ exOut.status = "Paid"

\* C7: when the first note's text contains "bankruptcy" in any letter case,
\* the status is "Bankruptcy" whatever the later notes contain, and the
\* account's (dpd, status) is classified CRITICAL.
C7_BankruptcyFirst ==
    (exOut.impl # "none" /\ Len(exNotes) > 0
        /\ includes(lowerContent[exNotes[1]], "bankruptcy")) =>
            /\ exOut.status = "Bankruptcy"
            /\ calculateRisk(exOut.dpd, exOut.status) = "CRITICAL"

\* A single bankruptcy note: dpd 12 from the heuristic, CRITICAL all the same
C7_Witness ==
    /\ exOut.impl = "client"
    /\ Len(exNotes) = 1
    /\ includes(toLowerCase(noteContent(exNotes[1])), "bankruptcy")
    /\ exOut.dpd = 12
    /\ exOut.status = "Bankruptcy"
    /\ calculateRisk(exOut.dpd, exOut.status) = "CRITICAL"

\* The four patterns of the claim ("<digits> days past due" or "<digits>
\* dpd"; "dpd: <digits>"; "<digits> dpd"; "delinquent: <digits>"), in order,
\* on one note: <<>> or the integer the first matching pattern captures
ClaimedNoteDpd(note) ==
    LET lc == toLowerCase(noteContent(note))
    IN  FirstPattern(<< matchDaysPastDueOrDpd(lc),
                        matchDpdColon(lc),
                        matchNumDpd(lc),
                        matchDelinquent(lc) >>)

\* C8: every extractDPD of the repository returns the integer captured by
\* the first of the four patterns that matches the earliest note matching
\* any of them.
C8_FirstPatternFirstNote ==
    exOut.impl # "none" =>
        LET hits == {n \in 1..Len(exNotes) : ClaimedNoteDpd(exNotes[n]) # <<>>}
        IN  hits # {} => exOut.dpd = ClaimedNoteDpd(exNotes[Min(hits)])[1]

\* No note of the list matches a pattern of the implementation that ran
NoDpdText ==
    \A n \in 1..Len(exNotes) :
        IF exOut.impl = "client" THEN noteDpd[exNotes[n]] = <<>>
        ELSE apiNoteDpd[exNotes[n]] = <<>>

\* C9: when no note matches any DPD pattern, extractDPD returns, for n notes,
\* 60 + min(3n, 120) if n > 10, 30 + 3n if 5 < n <= 10, 10 + 2n if n <= 5:
\* 12 for one note, never above 180, and not below the value for fewer notes.
C9_NoteCountHeuristic ==
    (exOut.impl # "none" /\ NoDpdText) =>
        LET n == Len(exNotes)
        IN  /\ n > 10 => exOut.dpd = 60 + (IF 3 * n < 120 THEN 3 * n ELSE 120)
            /\ (n > 5 /\ n <= 10) => exOut.dpd = 30 + 3 * n
            /\ n <= 5 => exOut.dpd = 10 + 2 * n
            /\ n = 1 => exOut.dpd = 12
            /\ exOut.dpd <= 180
            /\ \A m \in 0..n : noteCountHeuristic(m) <= exOut.dpd

\* The clamp at work: 41 notes, 3 * 41 > 120
C9_Witness ==
    exOut.impl = "client" /\ NoDpdText /\ Len(exNotes) = 41 /\ exOut.dpd = 180

PassNoteKey(note) ==
    IF pass.impl = "client" THEN noteCustKey[note]
    ELSE IF Falsy(note.custnumber) THEN note.accnumber ELSE note.custnumber

PassSmsKey(sms) ==
    IF pass.impl = "client" THEN smsCustKey[sms]
    ELSE sms.customer_number

\* The positions of the rows of customer id among the rows the pass read
NotesAt(id) == {n \in 1..Len(pass.notes) : PassNoteKey(pass.notes[n]) = id}

SmsAt(id) == {n \in 1..Len(pass.sms) : PassSmsKey(pass.sms[n]) = id}

\* When the key id was first seen by the grouping: the position of its first
\* note, or, for a key no note carries, the position of its first SMS after
\* all the notes
FirstSeen(id) ==
    IF NotesAt(id) # {} THEN Min(NotesAt(id))
    ELSE IF SmsAt(id) # {} THEN Len(pass.notes) + Min(SmsAt(id))
    ELSE 0

\* C11: the account list of a pass is ordered by dpd non-increasing, and two
\* accounts of equal dpd appear in the order in which their keys were first
\* inserted during grouping (note keys by first appearance, then SMS-only
\* keys by first appearance).
C11_SortedStable ==
    \A i, j \in Accounts :
        i < j =>
            LET a == pass.accounts[i]
                b == pass.accounts[j]
            IN  /\ a.dpd >= b.dpd
                /\ a.dpd = b.dpd =>
                       (FirstSeen(a.id) > 0 /\ FirstSeen(a.id) < FirstSeen(b.id))

\* A pass whose sort moved an account forward and kept a tie in place
C11_Witness ==
    /\ pass.impl # "none"
    /\ \E i, j \in Accounts :
          i < j /\ pass.accounts[i].dpd = pass.accounts[j].dpd
    /\ \E i, j \in Accounts :
          /\ i < j
          /\ pass.accounts[i].dpd > pass.accounts[j].dpd
          /\ FirstSeen(pass.accounts[i].id) > FirstSeen(pass.accounts[j].id)

\* The positions, among the notes of customer id, of the notes whose account
\* number is not a placeholder
ValidAccAt(id) == {n \in NotesAt(id) : ~IsPlaceholder(pass.notes[n].accnumber)}

\* C12: in every implementation, an account's accnumber is the first valid
\* (non-placeholder, trimmed) account number among the customer's notes in
\* input order, and "SMS-" followed by the customer key when there is none.
C12_AccnumberResolution ==
    \A i \in Accounts :
        LET a == pass.accounts[i]
        IN  a.accnumber =
                IF ValidAccAt(a.id) # {}
                THEN trim(pass.notes[Min(ValidAccAt(a.id))].accnumber)
                ELSE "SMS-" \o a.id

\* The date of a row as an account shows it: a row without a date shows "N/A"
ShownDate(d) == IF Falsy(d) THEN "N/A" ELSE d

\* C13: in every implementation, an account's lastContact is the notedate of
\* the first note of the customer in input order when the customer has
\* notes, otherwise the date_sent of the customer's first SMS in input order
\* when the customer has SMS, otherwise "N/A".
C13_LastContact ==
    \A i \in Accounts :
        LET a == pass.accounts[i]
        IN  a.lastContact =
                IF NotesAt(a.id) # {}
                THEN ShownDate(pass.notes[Min(NotesAt(a.id))].notedate)
                ELSE IF SmsAt(a.id) # {}
                THEN ShownDate(pass.sms[Min(SmsAt(a.id))].date_sent)
                ELSE "N/A"

\* What the implementation of the pass at hand makes of notes and sms
PassAggregate(notes, sms) ==
    IF pass.impl = "client" THEN aggregateClient(notes, sms)
    ELSE aggregateServer(notes, sms)

\* The records a fetch of the pass at hand gets from a table when the store
\* answers all its requests: the whole table on the client, the rows the
\* query selects on the server
NotesOfStore ==
    IF pass.impl = "client" THEN notesData ELSE SelectSeq(notesData, apiNoteSelected)

SmsOfStore ==
    IF pass.impl = "client" THEN smsData ELSE SelectSeq(smsData, apiSmsSelected)

\* C14: if exactly one of the two source fetches of a pass fails, by an
\* error result or by an exception, whichever source it is, the pass does
\* not fail and returns the accounts derived from the records of the source
\* that succeeded, the failed source counting as empty.
C14_PartialFailure ==
    LET n == pass.fetched.notes
        m == pass.fetched.sms
    IN  /\ (pass.impl # "none" /\ n.storeFailed /\ ~m.storeFailed) =>
               (~pass.failed /\ pass.accounts = PassAggregate(<<>>, SmsOfStore))
        /\ (pass.impl # "none" /\ m.storeFailed /\ ~n.storeFailed) =>
               (~pass.failed /\ pass.accounts = PassAggregate(NotesOfStore, <<>>))

\* C15: when the store fails the request for a page of a table, the fetch
\* step of the client reports a failure to its caller instead of returning
\* the rows fetched so far (or none) as if it had succeeded, and the pass
\* fails towards the UI.
C15_FetchFailureSurfaced ==
    pass.impl = "client" =>
        \A t \in {"notes", "sms"} :
            pass.fetched[t].storeFailed => (pass.fetched[t].threw /\ pass.failed)

LevelRank(level) ==
    IF level = "LOW" THEN 1 ELSE IF level = "HIGH" THEN 2 ELSE 3

\* The status triggers the bankruptcy/legal override
Overrides(status) ==
    status # NULL /\ (\/ includes(toLowerCase(status), "bankruptcy")
                      \/ includes(toLowerCase(status), "legal"))

\* C17: for a fixed status containing neither "bankruptcy" nor "legal" and
\* d1 <= d2, the level of calculateRisk(d1, status) is not above the level
\* of calculateRisk(d2, status), under LOW < HIGH < CRITICAL.
C17_RiskMonotonic ==
    (risk.level # "none" /\ ~Overrides(risk.status)) =>
        \A d2 \in risk.dpd..MaxDpd :
            LevelRank(risk.level) <= LevelRank(calculateRisk(d2, risk.status))

\* A level in the middle of the order, with levels below and above in range
C17_Witness ==
    /\ risk.level = "HIGH" /\ risk.dpd = 31 /\ risk.status = "Promise to Pay"
    /\ calculateRisk(MaxDpd, risk.status) = "CRITICAL"

\* C18: getPriorityScore(dpd, balance, status) is W + 2 * dpd +
\* min(balance / 100, 200) with W = 1000, 500, 100 for the levels CRITICAL,
\* HIGH, LOW of calculateRisk(dpd, status); the balance term is never above
\* 200.  (All terms times 100.)
C18_PriorityScore ==
    risk.score # <<>> =>
        LET level == calculateRisk(risk.dpd, risk.status)
            W == IF level = "CRITICAL" THEN 1000
                 ELSE IF level = "HIGH" THEN 500 ELSE 100
            balanceTerm == risk.score[1] - 100 * W - 200 * risk.dpd
        IN  /\ level \in {"CRITICAL", "HIGH", "LOW"}
            /\ balanceTerm = IF risk.balance <= 20000 THEN risk.balance ELSE 20000
            /\ balanceTerm <= 20000

\* A HIGH account whose balance is beyond the cap: 500 + 2 * 45 + 200
C18_Witness ==
    /\ risk.score = <<79000>>
    /\ risk.dpd = 45 /\ risk.balance = 75000 /\ risk.status = "Active"

\* The words of ValueWords that are placeholders: "", NULL, N/A, NONE and
\* UNDEFINED in any letter case, with or without white space around
PlaceholderWords ==
    { "", "null", "NULL", "Null", "n/a", "N/A", "none", "NONE", "None",
      "undefined", "UNDEFINED", "Undefined", "\tnone\n" }

\* C19: isValidValue(v) is false exactly when v is falsy or v, trimmed and
\* upper-cased, is "", "NULL", "N/A", "NONE" or "UNDEFINED"; it is true for
\* every other value, always returns, and changes nothing else.
C19_IsValidValue ==
    /\ [](call.fn = "isValidValue" /\ call.result # <<>> =>
             /\ call.result[1] \in BOOLEAN
             /\ call.result[1] = FALSE <=>
                    (call.arg.word = NULL \/ call.arg.word \in PlaceholderWords))
    /\ [][call.fn = "isValidValue" =>
             /\ call'.arg = call.arg
             /\ <<notesData, smsData, store, pass, exNotes, exOut, risk>>' =
                    <<notesData, smsData, store, pass, exNotes, exOut, risk>>]_vars

\* A padded placeholder in mixed case was rejected
C19_Witness ==
    /\ call.fn = "isValidValue"
    /\ call.arg = [left |-> 2, word |-> "Undefined", right |-> 1]
    /\ call.result = <<FALSE>>

\* The send_status spellings that equal "success" ignoring case
SuccessSpellings == {"success", "Success", "SUCCESS"}

\* C20: getSMSStats returns total = list length, successful = number of
\* entries whose send_status is "success" ignoring case, failed = total -
\* successful and successRate = round(100 * successful / total), 0 for the
\* empty list; so successful + failed = total, 0 <= successRate <= 100, and
\* 2 successes out of 3 give 67.
C20_SmsStats ==
    (call.fn = "getSMSStats" /\ call.result # <<>>) =>
        LET stats == call.result[1]
            total == Len(call.arg)
            successful ==
                Cardinality({i \in 1..total : call.arg[i].send_status \in SuccessSpellings})
        IN  /\ stats.total = total
            /\ stats.successful = successful
            /\ stats.failed = total - successful
            /\ stats.successful + stats.failed = stats.total
            /\ stats.successRate =
                   IF total = 0 THEN 0
                   ELSE (200 * successful + total) \div (2 * total)
            /\ stats.successRate \in 0..100
            /\ (total = 3 /\ successful = 2) => stats.successRate = 67

\* C21: aggregating an empty note list together with an empty SMS list
\* yields an empty account list, without error.
C21_EmptyInput ==
    (pass.impl = "client" /\ pass.notes = <<>> /\ pass.sms = <<>>) =>
        (pass.accounts = <<>> /\ ~pass.failed)

\* A client pass over two empty tables
C21_Witness ==
    /\ pass.impl = "client"
    /\ notesData = <<>> /\ smsData = <<>>
    /\ pass.notes = <<>> /\ pass.sms = <<>>
    /\ pass.accounts = <<>>

\* The step in which fetchAccounts goes on after await Promise.all
AggregationStarts ==
    job.fn = "fetchAccounts" /\ job.pc = "awaiting" /\ job'.pc = "done"

HealthyLoops ==
    {t \in Fetchers : store[t] = Healthy /\ job.loops[t].state # "off"}

\* At most one request of a loop is awaited, it is the request of the loop's
\* current page, and the pages before it are in allData
C23_Sequential ==
    \A t \in Fetchers :
        LET loop == job.loops[t]
        IN  /\ Cardinality(loop.inflight) <= 1
            /\ loop.inflight = IF loop.state = "running" THEN {loop.page} ELSE {}
            /\ loop.state = "running" =>
                  /\ loop.requested = loop.page + 1
                  /\ Len(loop.allData) = loop.page * pageSize

\* A loop that has returned made one request per full page and one more, and
\* holds the rows of the table, each once
C23_Complete ==
    \A t \in HealthyLoops :
        LET loop == job.loops[t]
            rows == IF t = "notes" THEN notesData ELSE smsData
        IN  loop.state = "returned" =>
                /\ loop.allData \in orderings(rows)
                /\ loop.requested = (Len(rows) \div pageSize) + 1

\* C23: the while loop of fetchPaginatedData (and of fetchAllSMSLogs) requests
\* page N+1 only after page N has returned; against a table that does not
\* change it ends after the first page with fewer rows than pageSize (or
\* none), having returned every row exactly once, and a table whose size is
\* a multiple of pageSize costs one more, empty page.
C23_Pagination ==
    /\ [](C23_Sequential /\ C23_Complete)
    /\ \A t \in Fetchers :
          (job.loops[t].state = "running") ~> (job.loops[t].state # "running")

\* What holds of the loop whatever order the store returns the rows in: the
\* requests are sequential, their number is that of the claim, as many rows
\* come back as the table holds, and the loop ends
C23_SequentialAndFinite ==
    /\ [](C23_Sequential /\
           \A t \in HealthyLoops :
               job.loops[t].state = "returned" =>
                   /\ Len(job.loops[t].allData) =
                          Len(IF t = "notes" THEN notesData ELSE smsData)
                   /\ job.loops[t].requested =
                          (Len(IF t = "notes" THEN notesData ELSE smsData) \div pageSize) + 1)
    /\ \A t \in Fetchers :
          (job.loops[t].state = "running") ~> (job.loops[t].state # "running")

\* fetchAllSMSLogs, which orders its requests, returns the table row for row
C23_OrderedComplete ==
    (job.fn = "fetchAllSMSLogs" /\ store.sms = Healthy /\ job.loops["sms"].state = "returned") =>
        job.loops["sms"].allData = orderBySmsIdDesc(smsData)

\* Every message saved under the key of an account was made in the
\* conversation of that account
StoredUnderOwnKey ==
    \A a \in ChatAccounts :
        \A i \in 1..Len(chat.storage[getStorageKey(a)]) :
            chat.storage[getStorageKey(a)][i].conv = a

\* Every message on display was made in the conversation of the account on
\* display
ShownInOwnConversation ==
    \A i \in 1..Len(chat.messages) : chat.messages[i].conv = chat.account

\* C27: chat conversations are isolated per account: the messages saved
\* under the storage key of account X were made in X's conversation, and
\* after a switch from A to B, also with a reply for A pending, A's messages,
\* reply or apology are neither saved under B's key nor appended to B's
\* conversation.  Stated for the moments at which no effect is waiting to
\* run, where the claim is at its weakest.
C27_Isolation ==
    chat.effects = <<>> => (StoredUnderOwnKey /\ ShownInOwnConversation)

\* The part of C27 about the storage, at every moment
C27_NeverUnderOtherKey == StoredUnderOwnKey

\* The calls of addNote whose row went in
Inserted == {c \in 1..Len(db.calls) : db.calls[c].pc = "done"}

\* The rows the table held before the first call
OldRows == 1..(Len(db.ids) - Cardinality(Inserted))

\* C28: the ids addNote assigns are unique: whatever the interleaving of two
\* or more calls, on the Supabase path or through POST /api/notehis, no two
\* inserted notes get the same id, and each id is the largest id of the
\* table at the time plus one.  Stated for the calls whose request for the
\* largest id the store answered.
C28_UniqueIds ==
    (\A c \in Inserted : db.calls[c].answered) =>
        /\ \A c, d \in Inserted : c # d => db.calls[c].nextId # db.calls[d].nextId
        /\ \A c \in Inserted :
              /\ db.calls[c].nextId = db.calls[c].maxBefore + 1
              /\ \A i \in OldRows : db.ids[i] # db.calls[c].nextId

\* What every answered call does get right: the id it computes is the
\* largest id of the table plus one at the time of the answer
C28_NextIdAtRead ==
    [][\A c \in 1..Len(db.calls) :
          (db.calls[c].pc = "select" /\ db'.calls[c].pc = "insert" /\ db'.calls[c].answered)
              => db'.calls[c].nextId = maxId(db.ids) + 1]_vars

\* With a table that rejects an id it already holds no id is given twice,
\* and the call that lost the race fails
C28_UniqueUnderConstraint ==
    db.unique => \A i, j \in 1..Len(db.ids) : i # j => db.ids[i] # db.ids[j]

\* The complete list of a pass over the rows the store answered call c with,
\* computed from those rows
CompleteList(c) == fetchAccounts(app.mode, app.calls[c].notes, app.calls[c].sms)

\* The accounts are in descending order of dpd
AppSorted(accounts) ==
    \A i \in 1..Len(accounts) - 1 : accounts[i].dpd >= accounts[i + 1].dpd

\* C24: while a refresh is in progress the account list on display is the
\* complete list of the pass before or the complete list of the new pass:
\* every step leaves the accounts state as it was or replaces it by the fully
\* built, sorted list of one pass, which is the list the settling call got.
C24_AtomicReplace ==
    [][\/ app'.accounts = app.accounts
       \/ \E c \in 1..Len(app.calls) :
             /\ app.calls[c].pc = "answered"
             /\ app'.calls[c].pc = "settled"
             /\ ~app.calls[c].failed
             /\ app'.accounts = CompleteList(c)
             /\ AppSorted(app'.accounts)]_vars

\* A refresh in progress: its answer, a different list, is on its way while
\* the complete list of the pass before is on display
C24_Witness ==
    /\ app.isRefreshing
    /\ app.accounts # <<>>
    /\ \E c \in 1..Len(app.calls) :
          /\ app.calls[c].pc = "answered"
          /\ ~app.calls[c].failed
          /\ Len(app.calls[c].data) > Len(app.accounts)
    /\ \E c \in 1..Len(app.calls) :
          app.calls[c].pc = "settled" /\ app.accounts = CompleteList(c)

\* The calls of loadAccounts have all settled
AllSettled == app.calls # <<>> /\ \A c \in 1..Len(app.calls) : app.calls[c].pc = "settled"

\* C25: when several loadAccounts calls overlap, then once all have settled
\* the account list on display is the result of the call that was started
\* last, whatever the order of the responses; an older response never
\* overwrites a newer one.
C25_LastStartedWins ==
    (AllSettled /\ ~app.calls[Len(app.calls)].failed) =>
        app.accounts = app.calls[Len(app.calls)].data

\* C26: after the agent selected account A and then account B, once every
\* fetch has settled the noteHistory and smsLogs App holds are those fetched
\* for B, the selected account, whatever the order of the answers; records
\* of A are not left on display under B.  Stated for the executions in which
\* no request failed.
C26_RecordsOfSelected ==
    (sel.selectedAccount # 0 /\ sel.inflight = {} /\ ~sel.failed) =>
        /\ sel.noteHistory =
              fetchNoteHistory(notesData, sel.accounts[sel.selectedAccount].accnumber)
        /\ sel.smsLogs =
              fetchSMSLogs(smsData, sel.accounts[sel.selectedAccount].custnumber)

\* Whether the customer identifier of a row of the model is a placeholder
NotePlaceholder == [note \in NoteRows |-> IsPlaceholder(note.custnumber)]

SmsPlaceholder == [sms \in SmsRows |-> IsPlaceholder(sms.customer_number)]

\* The positions of the rows with a valid customer key among the rows read
ValidNotes == {n \in 1..Len(pass.notes) : ~NotePlaceholder[pass.notes[n]]}

ValidSms == {n \in 1..Len(pass.sms) : ~SmsPlaceholder[pass.sms[n]]}

\* C29: in a client-side pass every note with a valid customer key is
\* counted in exactly one account's noteCount and every SMS with a valid key
\* in exactly one account's smsCount: the noteCounts sum to the number of
\* valid-key notes, the smsCounts to the number of valid-key SMS, and every
\* account has noteCount + smsCount >= 1.
C29_Conservation ==
    pass.impl = "client" =>
        /\ SumNoteCount(pass.accounts) = Cardinality(ValidNotes)
        /\ SumSmsCount(pass.accounts) = Cardinality(ValidSms)
        /\ \A n \in ValidNotes :
              Cardinality({i \in Accounts :
                  pass.accounts[i].id = noteCustKey[pass.notes[n]]}) = 1
        /\ \A n \in ValidSms :
              Cardinality({i \in Accounts :
                  pass.accounts[i].id = smsCustKey[pass.sms[n]]}) = 1
        /\ \A i \in Accounts :
              /\ pass.accounts[i].noteCount = Cardinality(NotesAt(pass.accounts[i].id))
              /\ pass.accounts[i].smsCount = Cardinality(SmsAt(pass.accounts[i].id))
              /\ pass.accounts[i].noteCount + pass.accounts[i].smsCount >= 1

\* A pass that dropped a note and an SMS and merged notes and SMS of one
\* customer
C29_Witness ==
    /\ pass.impl = "client"
    /\ Cardinality(ValidNotes) < Len(pass.notes)
    /\ Cardinality(ValidSms) < Len(pass.sms)
    /\ \E i \in Accounts :
          pass.accounts[i].noteCount >= 2 /\ pass.accounts[i].smsCount >= 1

\* The levels of calculateRisk
Levels == {"LOW", "HIGH", "CRITICAL"}

\* The scores getPriorityScore gives to the inputs of a level with dpd >= 0
\* and balance >= 0
ScoresOf ==
    [ lv \in Levels |->
        { getPriorityScore(d, b, st) :
            <<d, b, st>> \in { t \in (0..MaxDpd) \X Balances \X RiskStatuses :
                                 t[2] >= 0 /\ calculateRisk(t[1], t[3]) = lv } } ]

\* C30: for dpd >= 0 and balance >= 0, an input classified CRITICAL has a
\* strictly higher getPriorityScore than any input classified HIGH, and an
\* input classified HIGH a strictly higher one than any classified LOW.
C30_ScoreRespectsTiers ==
    (risk.score # <<>> /\ risk.dpd >= 0 /\ risk.balance >= 0) =>
        LET level == calculateRisk(risk.dpd, risk.status)
        IN  \A lv \in Levels :
                LevelRank(lv) < LevelRank(level) =>
                    \A other \in ScoresOf[lv] : other < risk.score[1]

\* The lowest CRITICAL input (override, dpd 0, no balance) above the highest
\* HIGH input (dpd 90, capped balance)
C30_Witness ==
    /\ risk.score = <<100000>>
    /\ risk.dpd = 0 /\ risk.balance = 0 /\ risk.status = "Bankruptcy"
    /\ 88000 \in ScoresOf["HIGH"]

====
